---- MODULE Spec2Model ----
(***************************************************************************)
(* A model of box2d-lite-rs: the rigid-body World (bodies, joints, the     *)
(* arbiter map), its step pipeline, the box-box narrow phase and the       *)
(* sequential-impulse solver.                                              *)
(*                                                                         *)
(* Numbers.  The program computes in f32.  The model computes in fixed     *)
(* point: a real r is the integer r * Scale, every product and quotient is *)
(* rounded toward zero to a multiple of 1 / Scale (f32 rounds to nearest   *)
(* at 24 bits; both are roundings of the exact result, and 0 * x = 0,      *)
(* x + 0 = x, x * 1 = x are exact in both).  Infinities and NaN are not    *)
(* modelled: the inputs keep every divisor away from zero, except the      *)
(* singular joint matrix, where Mat22::invert's assertion stops the run.   *)
(*                                                                         *)
(* Build.  debug_assert! is modelled as checked (the profile `cargo test`  *)
(* builds): a failed assertion sets `panicked` and the world is not used   *)
(* any more.                                                               *)
(***************************************************************************)
EXTENDS Integers, Sequences, FiniteSets, TLC

\* 1.0 in fixed point.
Scale == 10 * 100

Abs(a) == IF a < 0 THEN -a ELSE a
Min(a, b) == IF a < b THEN a ELSE b
Max(a, b) == IF a > b THEN a ELSE b

\* Integer quotient rounded toward zero.
TDiv(a, b) ==
  IF (a >= 0) = (b > 0) THEN Abs(a) \div Abs(b) ELSE -(Abs(a) \div Abs(b))

\* f32 `a * b` and `a / b` on fixed-point operands, rounded toward zero.
Mul(a, b) ==
  IF a * b >= 0 THEN (a * b) \div Scale ELSE -((-(a * b)) \div Scale)
Div(a, b) ==
  IF (a >= 0) = (b > 0)
  THEN (Abs(a) * Scale) \div Abs(b)
  ELSE -((Abs(a) * Scale) \div Abs(b))

\* A decimal literal n / d, e.g. Lit(95, 100) for 0.95.
Lit(n, d) == TDiv(n * Scale, d)

\* f32::sqrt on a fixed-point operand: the largest r with r * r <= a * Scale.
RECURSIVE SqrtSearch(_, _, _)
SqrtSearch(n, lo, hi) ==
  IF lo >= hi THEN lo
  ELSE LET mid == (lo + hi + 1) \div 2
       IN IF mid * mid <= n THEN SqrtSearch(n, mid, hi) ELSE SqrtSearch(n, lo, mid - 1)
Sqrt(a) == SqrtSearch(a * Scale, 0, Max(a, Scale))

\* f32::clamp(lo, hi); Rust panics when lo > hi (reported by the callers).
Clamp(x, lo, hi) == IF x < lo THEN lo ELSE IF x > hi THEN hi ELSE x

-----------------------------------------------------------------------------
(* math/vec2.rs *)

Vec2(x, y) == [x |-> x, y |-> y]
Zero2 == Vec2(0, 0)

VNeg(a) == Vec2(-a.x, -a.y)
VAdd(a, b) == Vec2(a.x + b.x, a.y + b.y)
VSub(a, b) == Vec2(a.x - b.x, a.y - b.y)
\* f32 * Vec2
VScale(s, a) == Vec2(Mul(s, a.x), Mul(s, a.y))
dot(a, b) == Mul(a.x, b.x) + Mul(a.y, b.y)
cross(a, b) == Mul(a.x, b.y) - Mul(a.y, b.x)
cross_vec_scalar(a, s) == Vec2(Mul(s, a.y), Mul(-s, a.x))
cross_scalar_vec(s, a) == Vec2(Mul(-s, a.y), Mul(s, a.x))
VAbs(a) == Vec2(Abs(a.x), Abs(a.y))

(* math/utils.rs *)
sign_nonzero(x) == IF x < 0 THEN -Scale ELSE Scale

-----------------------------------------------------------------------------
(* math/mat22.rs *)

Mat22(col1, col2) == [col1 |-> col1, col2 |-> col2]
ZeroMat == Mat22(Zero2, Zero2)

\* pi and pi / 2 in fixed point.
Pi == TDiv(355 * Scale, 113)
HalfPi == TDiv(355 * Scale, 226)

\* An angle brought into (-pi, pi].
RECURSIVE WrapAngle(_)
WrapAngle(a) ==
  IF a > Pi THEN WrapAngle(a - 2 * Pi)
  ELSE IF a <= -Pi THEN WrapAngle(a + 2 * Pi)
  ELSE a

\* f32::sin and f32::cos for |a| <= pi / 2: the Taylor polynomials to a^7 and a^8.
SinPoly(a) ==
  LET a2 == Mul(a, a)
      a3 == Mul(a2, a)
      a5 == Mul(a3, a2)
      a7 == Mul(a5, a2)
  IN a - TDiv(a3, 6) + TDiv(a5, 120) - TDiv(a7, 5040)
CosPoly(a) ==
  LET a2 == Mul(a, a)
      a4 == Mul(a2, a2)
      a6 == Mul(a4, a2)
      a8 == Mul(a4, a4)
  IN Scale - TDiv(a2, 2) + TDiv(a4, 24) - TDiv(a6, 720) + TDiv(a8, 40320)

Sin(angle) ==
  LET a == WrapAngle(angle)
  IN IF a > HalfPi THEN SinPoly(Pi - a)
     ELSE IF a < -HalfPi THEN SinPoly(-Pi - a)
     ELSE SinPoly(a)
Cos(angle) ==
  LET a == WrapAngle(angle)
  IN IF a > HalfPi THEN -CosPoly(Pi - a)
     ELSE IF a < -HalfPi THEN -CosPoly(-Pi - a)
     ELSE CosPoly(a)

from_angle(angle) ==
  LET c == Cos(angle)
      s == Sin(angle)
  IN Mat22(Vec2(c, s), Vec2(-s, c))

transpose(m) == Mat22(Vec2(m.col1.x, m.col2.x), Vec2(m.col1.y, m.col2.y))

MatAbs(m) == Mat22(VAbs(m.col1), VAbs(m.col2))
MatAdd(m, n) == Mat22(VAdd(m.col1, n.col1), VAdd(m.col2, n.col2))
\* Mat22 * Vec2
MatVec(m, v) ==
  VAdd(Vec2(Mul(m.col1.x, v.x), Mul(m.col1.y, v.x)),
       Vec2(Mul(m.col2.x, v.y), Mul(m.col2.y, v.y)))
\* Mat22 * Mat22
MatMul(m, n) == Mat22(MatVec(m, n.col1), MatVec(m, n.col2))

Det(m) == Mul(m.col1.x, m.col2.y) - Mul(m.col1.y, m.col2.x)
\* The debug_assert of Mat22::invert: |det| > f32::EPSILON (about 1.2e-7, below
\* the model's resolution, so a determinant that is not zero passes).
InvertAsserts(m) == Abs(Det(m)) > 0
invert(m) ==
  LET det == Div(Scale, Det(m))
  IN Mat22(Vec2(Mul(det, m.col2.y), Mul(-det, m.col1.y)),
           Vec2(Mul(-det, m.col2.x), Mul(det, m.col1.x)))

-----------------------------------------------------------------------------
(* collision/collide.rs: EdgeNumber, ClipVertex; collision/arbiter.rs: FeaturePair *)

NoEdge == "NoEdge"
Edge1 == "Edge1"
Edge2 == "Edge2"
Edge3 == "Edge3"
Edge4 == "Edge4"
EdgeNumber == {NoEdge, Edge1, Edge2, Edge3, Edge4}

\* `e as u32`: the discriminant of the #[repr(u8)] enum.
EdgeAsU32(e) ==
  CASE e = NoEdge -> 0
    [] e = Edge1 -> 1
    [] e = Edge2 -> 2
    [] e = Edge3 -> 3
    [] e = Edge4 -> 4

from_u8(v) ==
  CASE v = 0 -> NoEdge
    [] v = 1 -> Edge1
    [] v = 2 -> Edge2
    [] v = 3 -> Edge3
    [] v = 4 -> Edge4
    [] OTHER -> NoEdge

FeaturePair_new(in1, out1, in2, out2) ==
  [in_edge1 |-> in1, out_edge1 |-> out1, in_edge2 |-> in2, out_edge2 |-> out2]
FeaturePair_default == FeaturePair_new(NoEdge, NoEdge, NoEdge, NoEdge)

\* x << n and (x >> n) & 0xFF on u32; the four bytes are disjoint, so | is +.
\* The bits shifted past bit 31 are dropped: only the low 32 - n bits of x stay.
Shl(x, n) == (x % 2^(32 - n)) * 2^n
Byte(v, n) == (v \div 2^n) % 2^8

\* key with in_edge2 packed into the byte of out_edge1: a plausible slip of
\* the shift amount, used to test that C10 depends on the layout.
key_SameShift(fp) ==
  EdgeAsU32(fp.in_edge1) + Shl(EdgeAsU32(fp.out_edge1), 8)
    + Shl(EdgeAsU32(fp.in_edge2), 8) + Shl(EdgeAsU32(fp.out_edge2), 24)

key(fp) ==
  EdgeAsU32(fp.in_edge1) + Shl(EdgeAsU32(fp.out_edge1), 8)
    + Shl(EdgeAsU32(fp.in_edge2), 16) + Shl(EdgeAsU32(fp.out_edge2), 24)

from_key(v) ==
  [in_edge1 |-> from_u8(Byte(v, 0)), out_edge1 |-> from_u8(Byte(v, 8)),
   in_edge2 |-> from_u8(Byte(v, 16)), out_edge2 |-> from_u8(Byte(v, 24))]

flip(fp) ==
  [in_edge1 |-> fp.in_edge2, out_edge1 |-> fp.out_edge2,
   in_edge2 |-> fp.in_edge1, out_edge2 |-> fp.out_edge1]

ClipVertex(v, fp) == [v |-> v, fp |-> fp]
ClipVertex_default == ClipVertex(Zero2, FeaturePair_default)

Contact_default ==
  [position |-> Zero2, normal |-> Zero2, r1 |-> Zero2, r2 |-> Zero2,
   separation |-> 0, pn |-> 0, pt |-> 0, pnb |-> 0,
   mass_normal |-> 0, mass_tangent |-> 0, bias |-> 0,
   feature |-> FeaturePair_default]

\* v_out[i] = cv for a 2-element array and 0-based i; an index of 2 is the
\* out-of-bounds write Rust turns into a panic.
PutVertex(out, i, cv) ==
  IF i >= 2 THEN [out EXCEPT !.oob = TRUE]
  ELSE [out EXCEPT !.v_out[i + 1] = cv, !.num_out = i + 1]

\* The same dropping a vertex that lies on the plane; used to test that C30
\* depends on such a vertex being kept.
ClipKeep_Strict(out, distance, cv) ==
  IF distance < 0 THEN PutVertex(out, out.num_out, cv) ELSE out

\* if distance <= 0.0 { v_out[num_out] = v; num_out += 1; }
ClipKeep(out, distance, cv) ==
  IF distance <= 0 THEN PutVertex(out, out.num_out, cv) ELSE out

\* The intersection vertex of clip_segment_to_line.
ClipCross(v_in, distance0, distance1, clip_edge) ==
  ClipVertex(VAdd(v_in[1].v, VScale(Div(distance0, distance0 - distance1),
                                    VSub(v_in[2].v, v_in[1].v))),
             IF distance0 > 0
             THEN [v_in[1].fp EXCEPT !.in_edge1 = clip_edge, !.in_edge2 = NoEdge]
             ELSE [v_in[2].fp EXCEPT !.out_edge1 = clip_edge, !.out_edge2 = NoEdge])

\* if distance0 * distance1 < 0.0 { .. }: the operands have opposite signs.
ClipThird(out, v_in, distance0, distance1, clip_edge) ==
  IF (distance0 < 0 /\ distance1 > 0) \/ (distance0 > 0 /\ distance1 < 0)
  THEN PutVertex(out, out.num_out, ClipCross(v_in, distance0, distance1, clip_edge))
  ELSE out

\* clip_segment_to_line once the two distances are known.
ClipDistances(v_out, v_in, distance0, distance1, clip_edge) ==
  ClipThird(ClipKeep(ClipKeep([v_out |-> v_out, num_out |-> 0, oob |-> FALSE],
                              distance0, v_in[1]),
                     distance1, v_in[2]),
            v_in, distance0, distance1, clip_edge)

\* clip_segment_to_line: [v_out, num_out, oob].
clip_segment_to_line(v_out, v_in, normal, offset, clip_edge) ==
  ClipDistances(v_out, v_in, dot(normal, v_in[1].v) - offset,
                dot(normal, v_in[2].v) - offset, clip_edge)

\* One vertex of the incident edge, in world coordinates.
IncidentVertex(pos, rot, x, y, in2, out2) ==
  ClipVertex(VAdd(pos, MatVec(rot, Vec2(x, y))),
             [FeaturePair_default EXCEPT !.in_edge2 = in2, !.out_edge2 = out2])

\* compute_incident_edge once n, the normal in the incident box's frame, is known.
IncidentEdge(h, pos, rot, n) ==
  IF Abs(n.x) > Abs(n.y)
  THEN IF sign_nonzero(n.x) > 0
       THEN <<IncidentVertex(pos, rot, h.x, -h.y, Edge3, Edge4),
              IncidentVertex(pos, rot, h.x, h.y, Edge4, Edge1)>>
       ELSE <<IncidentVertex(pos, rot, -h.x, h.y, Edge1, Edge2),
              IncidentVertex(pos, rot, -h.x, -h.y, Edge2, Edge3)>>
  ELSE IF sign_nonzero(n.y) > 0
       THEN <<IncidentVertex(pos, rot, h.x, h.y, Edge4, Edge1),
              IncidentVertex(pos, rot, -h.x, h.y, Edge1, Edge2)>>
       ELSE <<IncidentVertex(pos, rot, -h.x, -h.y, Edge2, Edge3),
              IncidentVertex(pos, rot, h.x, -h.y, Edge3, Edge4)>>

compute_incident_edge(h, pos, rot, normal) ==
  IncidentEdge(h, pos, rot, VNeg(MatVec(transpose(rot), normal)))

-----------------------------------------------------------------------------
(* dynamics/body.rs *)

\* Option<f32>: mass = None is a static body.
None == <<>>
Some(m) == <<m>>

BodyDef(width, position, rotation, friction, mass) ==
  [width |-> width, position |-> position, rotation |-> rotation,
   friction |-> friction, mass |-> mass]

\* The debug_asserts of Body::from_def; they sit in the Some(mass) arm only.
FromDefAsserts(def) ==
  def.mass # None => (def.mass[1] > 0 /\ def.width.x > 0 /\ def.width.y > 0)

\* A dynamic body built without rotational inertia; used to test that C21
\* depends on the inv_i that the Some(mass) arm computes.
InvI_Zero(mass, width) == 0

\* The Some(mass) arm: (inv_mass, inv_i).
InvMass(mass) == Div(Scale, mass)
InvI(mass, width) ==
  Div(Scale, TDiv(Mul(mass, Mul(width.x, width.x) + Mul(width.y, width.y)), 12))

Body_from_def(def) ==
  [position |-> def.position, rotation |-> def.rotation,
   velocity |-> Zero2, angular_velocity |-> 0,
   force |-> Zero2, torque |-> 0,
   width |-> def.width, friction |-> def.friction,
   inv_mass |-> IF def.mass = None THEN 0 ELSE InvMass(def.mass[1]),
   inv_i |-> IF def.mass = None THEN 0 ELSE InvI(def.mass[1], def.width)]

add_force(b, f) == [b EXCEPT !.force = VAdd(b.force, f)]

\* World::body(h): handles are 0-based indices into the body vector.
body(bodies_, h) == bodies_[h + 1]

-----------------------------------------------------------------------------
(* collision/collide.rs: collide *)

FaceAX == "FaceAX"
FaceAY == "FaceAY"
FaceBX == "FaceBX"
FaceBY == "FaceBY"

NoContacts(contacts) == [contacts |-> contacts, num_contacts |-> 0]

\* One "if face > relative_tol * separation + absolute_tol * h { .. }" of the axis
\* search; separation is what the arm assigns to `separation`.
AxisTest(best, face, h, axis, separation, col, d) ==
  IF face > Mul(Lit(95, 100), best.separation) + Mul(Lit(1, 100), h)
  THEN [axis |-> axis, separation |-> separation,
        normal |-> IF d > 0 THEN col ELSE VNeg(col)]
  ELSE best

\* "Find best axis": [axis, separation, normal].  The FaceBY arm leaves
\* `separation` as it is (its assignment is commented out in the source).
BestAxisB(best, face_b, db, hb, rot_b) ==
  AxisTest(best, face_b.y, hb.y, FaceBY, best.separation, rot_b.col2, db.y)
BestAxis(face_a, face_b, da, db, ha, hb, rot_a, rot_b) ==
  BestAxisB(
    AxisTest(
      AxisTest([axis |-> FaceAX, separation |-> face_a.x,
                normal |-> IF da.x > 0 THEN rot_a.col1 ELSE VNeg(rot_a.col1)],
               face_a.y, ha.y, FaceAY, face_a.y, rot_a.col2, da.y),
      face_b.x, hb.x, FaceBX, face_b.x, rot_b.col1, db.x),
    face_b, db, hb, rot_b)

\* One arm of "match axis": the reference box is (h, pos, rot), the incident box
\* (hi, posi, roti); onX tells an x face from a y face.
ClipArm(front_normal, h, pos, rot, hi, posi, roti, onX) ==
  [front_normal |-> front_normal,
   front |-> dot(pos, front_normal) + (IF onX THEN h.x ELSE h.y),
   side_normal |-> IF onX THEN rot.col2 ELSE rot.col1,
   neg_side |-> -dot(pos, IF onX THEN rot.col2 ELSE rot.col1)
                  + (IF onX THEN h.y ELSE h.x),
   pos_side |-> dot(pos, IF onX THEN rot.col2 ELSE rot.col1)
                  + (IF onX THEN h.y ELSE h.x),
   neg_edge |-> IF onX THEN Edge3 ELSE Edge2,
   pos_edge |-> IF onX THEN Edge1 ELSE Edge4,
   incident_edge |-> compute_incident_edge(hi, posi, roti, front_normal)]

ClipSetup(axis, normal, ha, hb, pos_a, pos_b, rot_a, rot_b) ==
  IF axis \in {FaceAX, FaceAY}
  THEN ClipArm(normal, ha, pos_a, rot_a, hb, pos_b, rot_b, axis = FaceAX)
  ELSE ClipArm(VNeg(normal), hb, pos_b, rot_b, ha, pos_a, rot_a, axis = FaceBX)

\* The contact made of clipped point cv at separation sep.
MakeContact(c, cv, sep, cs, best) ==
  [c EXCEPT !.separation = sep,
            !.normal = best.normal,
            !.position = VSub(cv.v, VScale(sep, cs.front_normal)),
            !.feature = IF best.axis \in {FaceBX, FaceBY} THEN flip(cv.fp) ELSE cv.fp]

\* if sep <= 0.0 { contacts[num_contacts] = ..; num_contacts += 1; }
KeepContact(out, cv, sep, cs, best) ==
  IF sep <= 0
  THEN [contacts |-> [out.contacts EXCEPT ![out.num_contacts + 1] =
                        MakeContact(out.contacts[out.num_contacts + 1],
                                    cv, sep, cs, best)],
        num_contacts |-> out.num_contacts + 1]
  ELSE out

\* for i in 0..2 over the clipped points.
KeepContacts(out, clip_points2, cs, best) ==
  KeepContact(
    KeepContact(out, clip_points2[1],
                dot(cs.front_normal, clip_points2[1].v) - cs.front, cs, best),
    clip_points2[2],
    dot(cs.front_normal, clip_points2[2].v) - cs.front, cs, best)

TwoClipVertices == <<ClipVertex_default, ClipVertex_default>>

\* collide after the second clip.
CollideKeep(contacts, best, cs, clip2) ==
  IF clip2.num_out < 2 THEN NoContacts(contacts)
  ELSE KeepContacts(NoContacts(contacts), clip2.v_out, cs, best)

\* collide after the first clip.
CollideClip2(contacts, best, cs, clip1) ==
  IF clip1.num_out < 2 THEN NoContacts(contacts)
  ELSE CollideKeep(contacts, best, cs,
                   clip_segment_to_line(TwoClipVertices, clip1.v_out,
                                        cs.side_normal, cs.pos_side, cs.pos_edge))

\* collide once the clipping planes are set up.
CollideClip1(contacts, best, cs) ==
  CollideClip2(contacts, best, cs,
               clip_segment_to_line(TwoClipVertices, cs.incident_edge,
                                    VNeg(cs.side_normal), cs.neg_side, cs.neg_edge))

\* collide once the best axis is known.
CollideBest(contacts, best, ha, hb, pos_a, pos_b, rot_a, rot_b) ==
  CollideClip1(contacts, best,
               ClipSetup(best.axis, best.normal, ha, hb, pos_a, pos_b, rot_a, rot_b))

\* collide without the early return on box B's faces; used to test that C22
\* depends on both early returns.
CollideFaces_OnlyA(contacts, ha, hb, pos_a, pos_b, rot_a, rot_b, da, db, face_a, face_b) ==
  IF face_a.x > 0 \/ face_a.y > 0 THEN NoContacts(contacts)
  ELSE CollideBest(contacts,
                   BestAxis(face_a, face_b, da, db, ha, hb, rot_a, rot_b),
                   ha, hb, pos_a, pos_b, rot_a, rot_b)

\* collide once the face separations are known: the two early returns.
CollideFaces(contacts, ha, hb, pos_a, pos_b, rot_a, rot_b, da, db, face_a, face_b) ==
  IF face_a.x > 0 \/ face_a.y > 0 THEN NoContacts(contacts)
  ELSE IF face_b.x > 0 \/ face_b.y > 0 THEN NoContacts(contacts)
  ELSE CollideBest(contacts,
                   BestAxis(face_a, face_b, da, db, ha, hb, rot_a, rot_b),
                   ha, hb, pos_a, pos_b, rot_a, rot_b)

\* collide once da, db and c = rot_at * rot_b are known.
CollideFrames(contacts, ha, hb, pos_a, pos_b, rot_a, rot_b, da, db, c) ==
  CollideFaces(contacts, ha, hb, pos_a, pos_b, rot_a, rot_b, da, db,
               VSub(VSub(VAbs(da), ha), MatVec(MatAbs(c), hb)),
               VSub(VSub(VAbs(db), MatVec(MatAbs(transpose(c)), ha)), hb))

\* collide once the set-up values are known; dp = pos_a - pos_b.
CollideSetup(contacts, ha, hb, pos_a, pos_b, rot_a, rot_b) ==
  CollideFrames(contacts, ha, hb, pos_a, pos_b, rot_a, rot_b,
                MatVec(transpose(rot_a), VSub(pos_a, pos_b)),
                MatVec(transpose(rot_b), VSub(pos_a, pos_b)),
                MatMul(transpose(rot_a), rot_b))

\* collide(contacts, body_a, body_b, world): [num_contacts, contacts], the
\* returned count and the caller's array as the call leaves it.
collide(contacts, body_a, body_b) ==
  CollideSetup(contacts,
               VScale(Lit(1, 2), body_a.width), VScale(Lit(1, 2), body_b.width),
               body_a.position, body_b.position,
               from_angle(body_a.rotation), from_angle(body_b.rotation))

-----------------------------------------------------------------------------
(* dynamics/world.rs: WorldConfig, bodies_two_mut *)

WorldConfig(accumulate_impulses, warm_starting, position_correction) ==
  [accumulate_impulses |-> accumulate_impulses,
   warm_starting |-> warm_starting,
   position_correction |-> position_correction]
WorldConfig_default == WorldConfig(TRUE, TRUE, TRUE)

\* What bodies_two_mut needs not to panic: its assert!(a != b), and both
\* indices inside the slice for split_at_mut(j), left[i] and right[0].
TwoMutAsserts(bodies_, a, b) == a # b /\ a < Len(bodies_) /\ b < Len(bodies_)

\* let (i, j) = if a.0 <= b.0 { (a.0, b.0) } else { (b.0, a.0) };
TwoMutOrder(a, b) == IF a <= b THEN <<a, b>> ELSE <<b, a>>

\* bodies.split_at_mut(j), then &mut left[i] and &mut right[0]: each view as the
\* index in bodies of the element it borrows; left starts at index 0 and right
\* at index j.
TwoMutSplit(ij) == [bi |-> ij[1], bj |-> ij[2]]

\* The views without the re-mapping to the caller's order: a plausible slip,
\* used to test that C17 depends on the last line of bodies_two_mut.
TwoMutViews_NoRemap(a, b) ==
  <<TwoMutSplit(TwoMutOrder(a, b)).bi, TwoMutSplit(TwoMutOrder(a, b)).bj>>

\* if a.0 < b.0 { (bi, bj) } else { (bj, bi) }: the indices the two views borrow.
TwoMutViews(a, b) ==
  IF a < b THEN <<TwoMutSplit(TwoMutOrder(a, b)).bi, TwoMutSplit(TwoMutOrder(a, b)).bj>>
  ELSE <<TwoMutSplit(TwoMutOrder(a, b)).bj, TwoMutSplit(TwoMutOrder(a, b)).bi>>

\* bodies_two_mut(bodies, a, b): the two bodies borrowed, read through the views.
bodies_two_mut(bodies_, a, b) ==
  <<bodies_[TwoMutViews(a, b)[1] + 1], bodies_[TwoMutViews(a, b)[2] + 1]>>

\* The slice after the two borrowed bodies were written through the views.
StoreTwo(bodies_, a, b, b1, b2) ==
  [bodies_ EXCEPT ![TwoMutViews(a, b)[1] + 1] = b1, ![TwoMutViews(a, b)[2] + 1] = b2]

\* The first body of a pair left as it was; used to test that C29 depends on
\* the first body receiving the opposite of what the second receives.
SubImpulse_Skipped(b, r, p) == b

\* b.velocity -= b.inv_mass * p; b.angular_velocity -= b.inv_i * r.cross(p);
SubImpulse(b, r, p) ==
  [b EXCEPT !.velocity = VSub(b.velocity, VScale(b.inv_mass, p)),
            !.angular_velocity = b.angular_velocity - Mul(b.inv_i, cross(r, p))]

\* b.velocity += b.inv_mass * p; b.angular_velocity += b.inv_i * r.cross(p);
AddImpulse(b, r, p) ==
  [b EXCEPT !.velocity = VAdd(b.velocity, VScale(b.inv_mass, p)),
            !.angular_velocity = b.angular_velocity + Mul(b.inv_i, cross(r, p))]

-----------------------------------------------------------------------------
(* collision/arbiter.rs: ArbiterKey, Arbiter *)

ArbiterKey_new(b1, b2) == IF b1 <= b2 THEN <<b1, b2>> ELSE <<b2, b1>>

MAX_POINTS == 2

\* Arbiter::new once (body1, body2) are ordered and collide has run.
ArbiterOf(body1, body2, bodies_, col) ==
  [contacts |-> col.contacts, num_contacts |-> col.num_contacts,
   body1 |-> body1, body2 |-> body2,
   friction |-> Sqrt(Mul(body(bodies_, body1).friction, body(bodies_, body2).friction))]

ArbiterOrdered(body1, body2, bodies_) ==
  ArbiterOf(body1, body2, bodies_,
            collide(<<Contact_default, Contact_default>>,
                    body(bodies_, body1), body(bodies_, body2)))

Arbiter_new(b1, b2, bodies_) ==
  IF b1 <= b2 THEN ArbiterOrdered(b1, b2, bodies_) ELSE ArbiterOrdered(b2, b1, bodies_)

\* self.contacts[..self.num_contacts].iter().position(..): the 1-based index of
\* the first old contact with new_c's feature key, 0 for None.
FindFeature(self, new_c) ==
  IF self.num_contacts >= 1 /\ key(new_c.feature) = key(self.contacts[1].feature)
  THEN 1
  ELSE IF self.num_contacts >= 2 /\ key(new_c.feature) = key(self.contacts[2].feature)
  THEN 2
  ELSE 0

\* The body of update's first loop: the merged contact for new_c, given k.
MergeContact(self, new_c, k, warm_starting) ==
  IF k = 0 THEN new_c
  ELSE IF warm_starting
  THEN [new_c EXCEPT !.pn = self.contacts[k].pn,
                     !.pt = self.contacts[k].pt,
                     !.pnb = self.contacts[k].pnb]
  ELSE [new_c EXCEPT !.pn = 0, !.pt = 0, !.pnb = 0]

\* Arbiter::update(new_contacts, warm_starting); new_contacts is a slice.
update(self, new_contacts, warm_starting) ==
  [self EXCEPT
     !.contacts = [i \in 1..MAX_POINTS |->
                     IF i <= Len(new_contacts)
                     THEN MergeContact(self, new_contacts[i],
                                       FindFeature(self, new_contacts[i]),
                                       warm_starting)
                     ELSE self.contacts[i]],
     !.num_contacts = Len(new_contacts)]

\* k_normal and k_tangent of pre_step, along the unit direction d.
KEff(body1, body2, r1, r2, d) ==
  body1.inv_mass + body2.inv_mass
    + (Mul(body1.inv_i, dot(r1, r1) - Mul(dot(r1, d), dot(r1, d)))
       + Mul(body2.inv_i, dot(r2, r2) - Mul(dot(r2, d), dot(r2, d))))

\* let p = c.pn * c.normal + c.pt * tangent;
ImpulseOf(c, tangent) == VAdd(VScale(c.pn, c.normal), VScale(c.pt, tangent))

k_allowed_penetration == Lit(1, 100)
k_bias_factor(config) == IF config.position_correction THEN Lit(2, 10) ELSE 0

\* The body of pre_step's loop for contact i; st = [arb, b1, b2].
PreStepAt(st, i, c, r1, r2, tangent, inv_dt, config) ==
  [arb |-> [st.arb EXCEPT !.contacts[i] =
              [c EXCEPT !.mass_normal = Div(Scale, KEff(st.b1, st.b2, r1, r2, c.normal)),
                        !.mass_tangent = Div(Scale, KEff(st.b1, st.b2, r1, r2, tangent)),
                        !.bias = Mul(Mul(-k_bias_factor(config), inv_dt),
                                     Min(c.separation + k_allowed_penetration, 0))]],
   b1 |-> IF config.accumulate_impulses
          THEN SubImpulse(st.b1, r1, ImpulseOf(c, tangent)) ELSE st.b1,
   b2 |-> IF config.accumulate_impulses
          THEN AddImpulse(st.b2, r2, ImpulseOf(c, tangent)) ELSE st.b2]

PreStepContact(st, i, inv_dt, config) ==
  IF i > st.arb.num_contacts THEN st
  ELSE PreStepAt(st, i, st.arb.contacts[i],
                 VSub(st.arb.contacts[i].position, st.b1.position),
                 VSub(st.arb.contacts[i].position, st.b2.position),
                 cross_vec_scalar(st.arb.contacts[i].normal, Scale),
                 inv_dt, config)

\* The arbiter and the slice after a loop over the arbiter's contacts.
PairResult(st, bodies_) ==
  [arb |-> st.arb,
   bodies |-> StoreTwo(bodies_, st.arb.body1, st.arb.body2, st.b1, st.b2)]

PairState(self, bodies_) ==
  [arb |-> self,
   b1 |-> bodies_two_mut(bodies_, self.body1, self.body2)[1],
   b2 |-> bodies_two_mut(bodies_, self.body1, self.body2)[2]]

\* Arbiter::pre_step(inv_dt, bodies, config): [arb, bodies].
Arbiter_pre_step(self, inv_dt, bodies_, config) ==
  PairResult(
    PreStepContact(PreStepContact(PairState(self, bodies_), 1, inv_dt, config),
                   2, inv_dt, config),
    bodies_)

\* Relative velocity at contact.
ContactDv(c, b1, b2) ==
  VSub(VSub(VAdd(b2.velocity, cross_scalar_vec(b2.angular_velocity, c.r2)),
            b1.velocity),
       cross_scalar_vec(b1.angular_velocity, c.r1))

\* f32::clamp(min, max) panics when min > max.
ClampAsserts(lo, hi) == lo <= hi

\* apply_impulse, contact i, from "apply contact impulse" of the friction part.
ApplyTangent(st, i, c, dpt, tangent) ==
  [arb |-> [st.arb EXCEPT !.contacts[i] = c],
   b1 |-> SubImpulse(st.b1, c.r1, VScale(dpt, tangent)),
   b2 |-> AddImpulse(st.b2, c.r2, VScale(dpt, tangent)),
   ok |-> st.ok,
   dpn |-> st.dpn,
   dpt |-> dpt]

\* The friction part without the clamp: a plausible slip, used to test that
\* C14 depends on the clamp.
ClampTangent_NoClamp(st, i, c, dpn, dpt, max_pt, tangent, config) ==
  IF config.accumulate_impulses
  THEN ApplyTangent(st, i, [c EXCEPT !.pt = c.pt + dpt], dpt, tangent)
  ELSE ApplyTangent(st, i, c, dpt, tangent)

\* apply_impulse, contact i, the friction clamp; dpt is the unclamped impulse.
ClampTangent(st, i, c, dpn, dpt, max_pt, tangent, config) ==
  IF ~ClampAsserts(-max_pt, max_pt)
  THEN [st EXCEPT !.ok = FALSE]
  ELSE IF config.accumulate_impulses
  THEN ApplyTangent(st, i, [c EXCEPT !.pt = Clamp(c.pt + dpt, -max_pt, max_pt)],
                    Clamp(c.pt + dpt, -max_pt, max_pt) - c.pt, tangent)
  ELSE ApplyTangent(st, i, c, Clamp(dpt, -max_pt, max_pt), tangent)

\* apply_impulse, contact i, from the second "relative velocity at contact".
SolveTangent(st, i, c, dpn, tangent, config) ==
  ClampTangent(st, i, c, dpn,
               Mul(c.mass_tangent, -dot(ContactDv(c, st.b1, st.b2), tangent)),
               IF config.accumulate_impulses
               THEN Mul(st.arb.friction, c.pn) ELSE Mul(st.arb.friction, dpn),
               tangent, config)

\* apply_impulse, contact i, "apply contact impulse" of the normal part.
ApplyNormal(st, i, c, dpn, config) ==
  SolveTangent([st EXCEPT !.b1 = SubImpulse(st.b1, c.r1, VScale(dpn, c.normal)),
                          !.b2 = AddImpulse(st.b2, c.r2, VScale(dpn, c.normal)),
                          !.dpn = dpn],
               i, c, dpn, cross_vec_scalar(c.normal, Scale), config)

\* The normal part without the clamp: a plausible slip, used to test that C13
\* depends on the clamp.
ClampNormal_NoClamp(st, i, c, dpn, config) ==
  IF config.accumulate_impulses
  THEN ApplyNormal(st, i, [c EXCEPT !.pn = c.pn + dpn], dpn, config)
  ELSE ApplyNormal(st, i, c, dpn, config)

\* apply_impulse, contact i, the clamp of the normal impulse; dpn is unclamped.
ClampNormal(st, i, c, dpn, config) ==
  IF config.accumulate_impulses
  THEN ApplyNormal(st, i, [c EXCEPT !.pn = Max(c.pn + dpn, 0)],
                   Max(c.pn + dpn, 0) - c.pn, config)
  ELSE ApplyNormal(st, i, c, Max(dpn, 0), config)

\* apply_impulse, contact i, once c.r1 and c.r2 are set.
SolveNormal(st, i, c, config) ==
  ClampNormal(st, i, c,
              Mul(c.mass_normal, -dot(ContactDv(c, st.b1, st.b2), c.normal) + c.bias),
              config)

\* The body of apply_impulse's loop for contact i; st = [arb, b1, b2, ok, dpn,
\* dpt], where dpn and dpt are the impulses the loop body last applied to the
\* two bodies along the normal and the tangent.
ApplyImpulseContact(st, i, config) ==
  IF i > st.arb.num_contacts \/ ~st.ok THEN st
  ELSE SolveNormal(st, i,
                   [st.arb.contacts[i] EXCEPT
                      !.r1 = VSub(st.arb.contacts[i].position, st.b1.position),
                      !.r2 = VSub(st.arb.contacts[i].position, st.b2.position)],
                   config)

ImpulseResult(st, bodies_) ==
  [arb |-> st.arb,
   bodies |-> StoreTwo(bodies_, st.arb.body1, st.arb.body2, st.b1, st.b2),
   ok |-> st.ok]

ImpulseState(self, bodies_) ==
  [arb |-> self,
   b1 |-> bodies_two_mut(bodies_, self.body1, self.body2)[1],
   b2 |-> bodies_two_mut(bodies_, self.body1, self.body2)[2],
   ok |-> TRUE,
   dpn |-> 0,
   dpt |-> 0]

\* Arbiter::apply_impulse(bodies, config): [arb, bodies, ok]; ok is FALSE when
\* the call panics.  An arbiter has body1 <= body2, so (b1, b2) is that pair.
Arbiter_apply_impulse(self, bodies_, config) ==
  ImpulseResult(
    ApplyImpulseContact(ApplyImpulseContact(ImpulseState(self, bodies_), 1, config),
                        2, config),
    bodies_)

-----------------------------------------------------------------------------
(* dynamics/joint.rs *)

JointDef(body1, body2, anchor, softness, bias_factor) ==
  [body1 |-> body1, body2 |-> body2, anchor |-> anchor,
   softness |-> softness, bias_factor |-> bias_factor]

JointDef_new(body1, body2, anchor) == JointDef(body1, body2, anchor, 0, Lit(2, 10))

\* Joint::from_def refusing a joint of a body with itself as well; used to test
\* that C18 depends on from_def taking any two handles that index the vector.
JointFromDefAsserts_Distinct(bodies_, def) ==
  def.body1 < Len(bodies_) /\ def.body2 < Len(bodies_) /\ def.body1 # def.body2

\* What Joint::from_def needs not to panic: world.body(h) indexes the vector.
JointFromDefAsserts(bodies_, def) ==
  def.body1 < Len(bodies_) /\ def.body2 < Len(bodies_)

\* rot_t * (anchor - b.position)
LocalAnchor(b, anchor) ==
  MatVec(transpose(from_angle(b.rotation)), VSub(anchor, b.position))

Joint_from_def(bodies_, def) ==
  [m |-> ZeroMat,
   local_anchor1 |-> LocalAnchor(body(bodies_, def.body1), def.anchor),
   local_anchor2 |-> LocalAnchor(body(bodies_, def.body2), def.anchor),
   r1 |-> Zero2, r2 |-> Zero2, bias |-> Zero2, p |-> Zero2,
   body1 |-> def.body1, body2 |-> def.body2,
   bias_factor |-> def.bias_factor, softness |-> def.softness]

\* k2 and k3 of pre_step.
JointK(inv_i, r) ==
  Mat22(Vec2(Mul(Mul(inv_i, r.y), r.y), Mul(Mul(-inv_i, r.x), r.y)),
        Vec2(Mul(Mul(-inv_i, r.x), r.y), Mul(Mul(inv_i, r.x), r.x)))

\* k = k1 + k2 + k3 with the softness added on the diagonal.
JointMatrix(self, body1, body2) ==
  MatAdd(MatAdd(MatAdd(Mat22(Vec2(body1.inv_mass + body2.inv_mass, 0),
                             Vec2(0, body1.inv_mass + body2.inv_mass)),
                       JointK(body1.inv_i, self.r1)),
                JointK(body2.inv_i, self.r2)),
         Mat22(Vec2(self.softness, 0), Vec2(0, self.softness)))

\* pre_step leaving the accumulated impulse in place when warm_starting is off;
\* used to test that C25 depends on the reset of self.p.
JointWarmStart_KeepP(self, body1, body2, config) ==
  IF config.warm_starting
  THEN [joint |-> self,
        b1 |-> SubImpulse(body1, self.r1, self.p),
        b2 |-> AddImpulse(body2, self.r2, self.p),
        ok |-> TRUE]
  ELSE [joint |-> self, b1 |-> body1, b2 |-> body2, ok |-> TRUE]

\* pre_step from "if config.warm_starting".
JointWarmStart(self, body1, body2, config) ==
  IF config.warm_starting
  THEN [joint |-> self,
        b1 |-> SubImpulse(body1, self.r1, self.p),
        b2 |-> AddImpulse(body2, self.r2, self.p),
        ok |-> TRUE]
  ELSE [joint |-> [self EXCEPT !.p = Zero2], b1 |-> body1, b2 |-> body2, ok |-> TRUE]

\* pre_step going on with a matrix that is not k's inverse when k is singular;
\* used to test that C20 depends on the assertion of Mat22::invert.
JointInvert_Unchecked(self, body1, body2, k, inv_dt, config) ==
  JointWarmStart(
    [self EXCEPT
       !.m = IF InvertAsserts(k) THEN invert(k) ELSE ZeroMat,
       !.bias = IF config.position_correction
                THEN VScale(Mul(-self.bias_factor, inv_dt),
                            VSub(VAdd(body2.position, self.r2),
                                 VAdd(body1.position, self.r1)))
                ELSE Zero2],
    body1, body2, config)

\* pre_step from "self.m = k.invert()".
JointInvert(self, body1, body2, k, inv_dt, config) ==
  IF ~InvertAsserts(k)
  THEN [joint |-> self, b1 |-> body1, b2 |-> body2, ok |-> FALSE]
  ELSE JointWarmStart(
         [self EXCEPT
            !.m = invert(k),
            !.bias = IF config.position_correction
                     THEN VScale(Mul(-self.bias_factor, inv_dt),
                                 VSub(VAdd(body2.position, self.r2),
                                      VAdd(body1.position, self.r1)))
                     ELSE Zero2],
         body1, body2, config)

\* pre_step once self.r1 and self.r2 are set.
JointAnchored(self, body1, body2, inv_dt, config) ==
  JointInvert(self, body1, body2, JointMatrix(self, body1, body2), inv_dt, config)

JointPair(self, body1, body2, inv_dt, config) ==
  JointAnchored([self EXCEPT !.r1 = MatVec(from_angle(body1.rotation), self.local_anchor1),
                             !.r2 = MatVec(from_angle(body2.rotation), self.local_anchor2)],
                body1, body2, inv_dt, config)

JointResult(r, self, bodies_) ==
  [joint |-> r.joint,
   bodies |-> IF r.ok THEN StoreTwo(bodies_, self.body1, self.body2, r.b1, r.b2)
              ELSE bodies_,
   ok |-> r.ok]

\* Joint::pre_step(inv_dt, bodies, config): [joint, bodies, ok].
Joint_pre_step(self, inv_dt, bodies_, config) ==
  IF ~TwoMutAsserts(bodies_, self.body1, self.body2)
  THEN [joint |-> self, bodies |-> bodies_, ok |-> FALSE]
  ELSE JointResult(JointPair(self,
                             bodies_two_mut(bodies_, self.body1, self.body2)[1],
                             bodies_two_mut(bodies_, self.body1, self.body2)[2],
                             inv_dt, config),
                   self, bodies_)

\* let impulse = self.m * (self.bias - dv - self.softness * self.p);
JointImpulse(self, body1, body2) ==
  MatVec(self.m,
         VSub(VSub(self.bias,
                   VSub(VSub(VAdd(body2.velocity,
                                  cross_scalar_vec(body2.angular_velocity, self.r2)),
                             body1.velocity),
                        cross_scalar_vec(body1.angular_velocity, self.r1))),
              VScale(self.softness, self.p)))

\* apply_impulse giving the impulse to body2 alone; used to test that C27
\* depends on both bodies receiving it.
JointApply_OneSided(self, bodies_, body1, body2, impulse) ==
  [joint |-> [self EXCEPT !.p = VAdd(self.p, impulse)],
   bodies |-> StoreTwo(bodies_, self.body1, self.body2,
                       body1,
                       AddImpulse(body2, self.r2, impulse)),
   ok |-> TRUE]

\* apply_impulse from "body1.velocity -= body1.inv_mass * impulse".
JointApply(self, bodies_, body1, body2, impulse) ==
  [joint |-> [self EXCEPT !.p = VAdd(self.p, impulse)],
   bodies |-> StoreTwo(bodies_, self.body1, self.body2,
                       SubImpulse(body1, self.r1, impulse),
                       AddImpulse(body2, self.r2, impulse)),
   ok |-> TRUE]

JointSolve(self, bodies_, body1, body2) ==
  JointApply(self, bodies_, body1, body2, JointImpulse(self, body1, body2))

\* Joint::apply_impulse(bodies): [joint, bodies, ok].
Joint_apply_impulse(self, bodies_) ==
  IF ~TwoMutAsserts(bodies_, self.body1, self.body2)
  THEN [joint |-> self, bodies |-> bodies_, ok |-> FALSE]
  ELSE JointSolve(self, bodies_,
                  bodies_two_mut(bodies_, self.body1, self.body2)[1],
                  bodies_two_mut(bodies_, self.body1, self.body2)[2])

-----------------------------------------------------------------------------
(* dynamics/world.rs: World *)

World(bodies_, joints_, arbiters_, gravity_, iterations_, config_) ==
  [bodies |-> bodies_, joints |-> joints_, arbiters |-> arbiters_,
   gravity |-> gravity_, iterations |-> iterations_, config |-> config_]

\* BTreeMap<ArbiterKey, Arbiter>: a function from keys <<body1, body2>>.
EmptyMap == <<>>
MapInsert(m, k, v) == [x \in DOMAIN m \cup {k} |-> IF x = k THEN v ELSE m[x]]
MapRemove(m, k) == [x \in DOMAIN m \ {k} |-> m[x]]

\* The pairs (i, j), i < j < n, in the order of broad_phase's two loops, which
\* is also the order of the derived Ord of ArbiterKey.
PairSeq(n) ==
  SelectSeq([k \in 1..(n * n) |-> <<(k - 1) \div n, (k - 1) % n>>],
            LAMBDA p : p[1] < p[2])

\* BTreeMap::values_mut visits the arbiters in key order.
KeySeq(arbiters_, n) == SelectSeq(PairSeq(n), LAMBDA p : p \in DOMAIN arbiters_)

\* The same without the removal of an arbiter whose pair no longer touches: a
\* plausible slip, used to test that C12 depends on the removal.
BroadPhaseEntry_NoRemove(arbiters_, k, new_arb, config_) ==
  IF new_arb.num_contacts > 0
  THEN IF k \notin DOMAIN arbiters_
       THEN MapInsert(arbiters_, k, new_arb)
       ELSE [arbiters_ EXCEPT ![k] = update(@, new_arb.contacts, config_.warm_starting)]
  ELSE arbiters_

\* broad_phase's "if new_arb.num_contacts > 0 { match entry .. } else { remove }".
BroadPhaseEntry(arbiters_, k, new_arb, config_) ==
  IF new_arb.num_contacts > 0
  THEN IF k \notin DOMAIN arbiters_
       THEN MapInsert(arbiters_, k, new_arb)
       ELSE [arbiters_ EXCEPT ![k] = update(@, new_arb.contacts, config_.warm_starting)]
  ELSE MapRemove(arbiters_, k)

\* The body of broad_phase's inner loop for the pair p = (i, j).
BroadPhasePair(arbiters_, p, bodies_, config_) ==
  IF body(bodies_, p[1]).inv_mass = 0 /\ body(bodies_, p[2]).inv_mass = 0
  THEN arbiters_
  ELSE BroadPhaseEntry(arbiters_, ArbiterKey_new(p[1], p[2]),
                       Arbiter_new(p[1], p[2], bodies_), config_)

RECURSIVE BroadPhaseLoop(_, _, _, _)
BroadPhaseLoop(pairs, arbiters_, bodies_, config_) ==
  IF pairs = <<>> THEN arbiters_
  ELSE BroadPhaseLoop(Tail(pairs),
                      BroadPhasePair(arbiters_, Head(pairs), bodies_, config_),
                      bodies_, config_)

\* World::broad_phase: the world with its arbiter map refreshed.
broad_phase(w) ==
  [w EXCEPT !.arbiters =
     BroadPhaseLoop(PairSeq(Len(w.bodies)), w.arbiters, w.bodies, w.config)]

\* "Integrate forces" without the skip of static bodies: a plausible slip,
\* used to test that C1 depends on the skip.
IntegrateForce_Static(b, dt, gravity_) ==
  [b EXCEPT
     !.velocity = VAdd(b.velocity,
                       VScale(dt, VAdd(gravity_, VScale(b.inv_mass, b.force)))),
     !.angular_velocity = b.angular_velocity + Mul(Mul(dt, b.inv_i), b.torque)]

\* "Integrate forces" with the force not scaled by inv_mass: a plausible slip,
\* used to test that C9 depends on the formula.
IntegrateForce_NoInvMass(b, dt, gravity_) ==
  IF b.inv_mass = 0 THEN b
  ELSE [b EXCEPT
          !.velocity = VAdd(b.velocity, VScale(dt, VAdd(gravity_, b.force))),
          !.angular_velocity = b.angular_velocity + Mul(Mul(dt, b.inv_i), b.torque)]

\* "Integrate forces" for one body.
IntegrateForce(b, dt, gravity_) ==
  IF b.inv_mass = 0 THEN b
  ELSE [b EXCEPT
          !.velocity = VAdd(b.velocity,
                            VScale(dt, VAdd(gravity_, VScale(b.inv_mass, b.force)))),
          !.angular_velocity = b.angular_velocity + Mul(Mul(dt, b.inv_i), b.torque)]

\* "Integrate velocities" with the step taken as one time unit whatever dt is:
\* a plausible slip, used to test that C5 depends on the factor dt.
IntegrateVelocity_NoDt(b, dt) ==
  [b EXCEPT !.position = VAdd(b.position, b.velocity),
            !.rotation = b.rotation + b.angular_velocity,
            !.force = Zero2,
            !.torque = 0]

\* "Integrate velocities" without the reset of force and torque: a plausible
\* slip, used to test that C8 depends on the reset.
IntegrateVelocity_KeepForce(b, dt) ==
  [b EXCEPT !.position = VAdd(b.position, VScale(dt, b.velocity)),
            !.rotation = b.rotation + Mul(dt, b.angular_velocity)]

\* "Integrate velocities" for one body, with the reset of force and torque.
IntegrateVelocity(b, dt) ==
  [b EXCEPT !.position = VAdd(b.position, VScale(dt, b.velocity)),
            !.rotation = b.rotation + Mul(dt, b.angular_velocity),
            !.force = Zero2,
            !.torque = 0]

\* The solver's view of the split world: s = [bodies, joints, arbiters, ok].
ArbiterPreStepped(s, k, r) ==
  [s EXCEPT !.arbiters = [s.arbiters EXCEPT ![k] = r.arb], !.bodies = r.bodies]

RECURSIVE ArbitersPreStep(_, _, _, _)
ArbitersPreStep(keys, s, inv_dt, config_) ==
  IF keys = <<>> THEN s
  ELSE ArbitersPreStep(Tail(keys),
                       ArbiterPreStepped(s, Head(keys),
                                         Arbiter_pre_step(s.arbiters[Head(keys)],
                                                          inv_dt, s.bodies, config_)),
                       inv_dt, config_)

JointStepped(s, i, r) ==
  [s EXCEPT !.joints = [s.joints EXCEPT ![i] = r.joint],
            !.bodies = r.bodies,
            !.ok = r.ok]

RECURSIVE JointsPreStep(_, _, _, _)
JointsPreStep(i, s, inv_dt, config_) ==
  IF i > Len(s.joints) \/ ~s.ok THEN s
  ELSE JointsPreStep(i + 1,
                     JointStepped(s, i, Joint_pre_step(s.joints[i], inv_dt,
                                                       s.bodies, config_)),
                     inv_dt, config_)

ArbiterApplied(s, k, r) ==
  [s EXCEPT !.arbiters = [s.arbiters EXCEPT ![k] = r.arb],
            !.bodies = r.bodies,
            !.ok = r.ok]

RECURSIVE ArbitersApplyImpulse(_, _, _)
ArbitersApplyImpulse(keys, s, config_) ==
  IF keys = <<>> \/ ~s.ok THEN s
  ELSE ArbitersApplyImpulse(Tail(keys),
                            ArbiterApplied(s, Head(keys),
                                           Arbiter_apply_impulse(s.arbiters[Head(keys)],
                                                                 s.bodies, config_)),
                            config_)

RECURSIVE JointsApplyImpulse(_, _)
JointsApplyImpulse(i, s) ==
  IF i > Len(s.joints) \/ ~s.ok THEN s
  ELSE JointsApplyImpulse(i + 1,
                          JointStepped(s, i, Joint_apply_impulse(s.joints[i], s.bodies)))

\* The same with the joints of a round taken before its arbiters.
RECURSIVE Iterate_JointsFirst(_, _, _, _)
Iterate_JointsFirst(n, s, keys, config_) ==
  IF n = 0 \/ ~s.ok THEN s
  ELSE Iterate_JointsFirst(n - 1,
                           ArbitersApplyImpulse(keys, JointsApplyImpulse(1, s), config_),
                           keys, config_)

\* "Perform iterations": n rounds of arbiters, then joints.
RECURSIVE Iterate(_, _, _, _)
Iterate(n, s, keys, config_) ==
  IF n = 0 \/ ~s.ok THEN s
  ELSE Iterate(n - 1,
               JointsApplyImpulse(1, ArbitersApplyImpulse(keys, s, config_)),
               keys, config_)

\* step from "Integrate velocities": [ok, w].
StepIntegrate(w, dt, s) ==
  [ok |-> s.ok,
   w |-> [w EXCEPT !.bodies = [i \in DOMAIN s.bodies |->
                                 IntegrateVelocity(s.bodies[i], dt)],
                   !.joints = s.joints,
                   !.arbiters = s.arbiters]]

\* step from "Perform pre-steps" to the end of the iterations.
StepSolve(w, dt, inv_dt, keys) ==
  StepIntegrate(w, dt,
    Iterate(w.iterations,
            JointsPreStep(1,
                          ArbitersPreStep(keys,
                                          [bodies |-> w.bodies, joints |-> w.joints,
                                           arbiters |-> w.arbiters, ok |-> TRUE],
                                          inv_dt, w.config),
                          inv_dt, w.config),
            keys, w.config))

\* step from "Integrate forces"; w is the world after the broad phase.
StepForces(w, dt, inv_dt) ==
  StepSolve([w EXCEPT !.bodies = [i \in DOMAIN w.bodies |->
                                    IntegrateForce(w.bodies[i], dt, w.gravity)]],
            dt, inv_dt, KeySeq(w.arbiters, Len(w.bodies)))

\* World::step(dt): [ok, w]; ok is FALSE when the call panics.
step(w, dt) ==
  StepForces(broad_phase(w), dt, IF dt <= 0 THEN 0 ELSE Div(Scale, dt))

-----------------------------------------------------------------------------
(* The program as a state machine: a World and its caller *)

VARIABLES
  bodies,      \* World::bodies
  joints,      \* World::joints
  arbiters,    \* World::arbiters
  gravity,     \* World::gravity
  iterations,  \* World::iterations
  config,      \* World::config
  panicked,    \* a call has panicked: the program has stopped
  last,        \* the last call made, with its dt
  pre,         \* bodies, joints and arbiters as the last step or broad_phase found them
  created,     \* each body as create_body made it
  mutated,     \* handles of the bodies the caller has written to
  nsteps,      \* step and broad_phase calls made
  nwrites,     \* writes the caller has made to bodies and config
  fp,          \* a FeaturePair
  packed,      \* its key
  unpacked,    \* the FeaturePair read back from the key
  args,        \* the arguments of a call made on its own, outside a world
  ret          \* what that call returned or left behind

worldVars ==
  <<bodies, joints, arbiters, gravity, iterations, config, panicked, pre,
    created, mutated, nsteps, nwrites>>
featureVars == <<fp, packed, unpacked>>
unitVars == <<args, ret>>
vars == <<worldVars, last, featureVars, unitVars>>

TheWorld == World(bodies, joints, arbiters, gravity, iterations, config)

MaxBodies == 2
MaxJoints == 1
MaxSteps == 2
MaxWrites == 1
MaxIterations == 1

Gravities == {Zero2, Vec2(0, -10 * Scale)}
DtValues == {0, Lit(1, 10), -Lit(1, 10)}

\* A static slab, a box sunk a little into its top, two thin bars crossing at
\* the origin (they touch in one point) away from the slab and the box, and a
\* definition with a mass that is not positive.
Slab == BodyDef(Vec2(2 * Scale, Scale), Vec2(0, -Lit(25, 10)), 0, Lit(2, 10), None)
Box == BodyDef(Vec2(Scale, Scale), Vec2(0, -Lit(16, 10)), 0, Lit(2, 10), Some(Scale))
Bar == BodyDef(Vec2(Scale, Lit(2, 10)), Zero2, 0, Lit(2, 10), Some(Scale))
TiltedBar == BodyDef(Vec2(Scale, Lit(2, 10)), Zero2, Lit(1, 2), Lit(2, 10), Some(2 * Scale))
Massless == BodyDef(Vec2(Scale, Scale), Zero2, 0, Lit(2, 10), Some(0))
BodyDefs == {Slab, Box, Bar, TiltedBar, Massless}

Forces == {Vec2(3 * Scale, 4 * Scale)}
Torques == {2 * Scale}
Velocities == {Vec2(0, -2 * Scale)}
Anchors == {Zero2}
Flags == {"accumulate_impulses", "warm_starting", "position_correction"}

Handles == 0..(Len(bodies) - 1)

Snapshot(w) == [bodies |-> w.bodies, joints |-> w.joints, arbiters |-> w.arbiters]
NoSnapshot == [bodies |-> <<>>, joints |-> <<>>, arbiters |-> EmptyMap]
Call(op, dt) == [op |-> op, dt |-> dt]

FeatureIdle ==
  /\ fp = FeaturePair_default
  /\ packed = 0
  /\ unpacked = FeaturePair_default

NoValue == <<>>
UnitIdle == args = NoValue /\ ret = NoValue

\* World::new(gravity, iterations)
Init ==
  /\ gravity \in Gravities
  /\ iterations \in 1..MaxIterations
  /\ config = WorldConfig_default
  /\ bodies = <<>>
  /\ joints = <<>>
  /\ arbiters = EmptyMap
  /\ panicked = FALSE
  /\ last = Call("new", 0)
  /\ pre = NoSnapshot
  /\ created = <<>>
  /\ mutated = {}
  /\ nsteps = 0
  /\ nwrites = 0
  /\ FeatureIdle
  /\ UnitIdle

\* A call that panics: the program stops with the world as it was.
Panic(op, dt) ==
  /\ panicked' = TRUE
  /\ last' = Call(op, dt)
  /\ UNCHANGED <<featureVars, unitVars, bodies, joints, arbiters, gravity, iterations, config, pre,
                 created, mutated, nsteps, nwrites>>

\* world.create_body(def); the caller builds the world before it steps it
CreateBody(def) ==
  /\ ~panicked
  /\ nsteps = 0 /\ nwrites = 0
  /\ Len(bodies) < MaxBodies
  /\ IF FromDefAsserts(def)
     THEN /\ bodies' = Append(bodies, Body_from_def(def))
          /\ created' = Append(created, Body_from_def(def))
          /\ last' = Call("create_body", 0)
          /\ pre' = NoSnapshot
          /\ UNCHANGED <<featureVars, unitVars, joints, arbiters, gravity, iterations, config, panicked,
                         mutated, nsteps, nwrites>>
     ELSE Panic("create_body", 0)

\* world.create_joint(JointDef::new(b1, b2, anchor)), with any two handles
CreateJoint(b1, b2, anchor) ==
  /\ ~panicked
  /\ nsteps = 0 /\ nwrites = 0
  /\ Len(joints) < MaxJoints
  /\ IF JointFromDefAsserts(bodies, JointDef_new(b1, b2, anchor))
     THEN /\ joints' = Append(joints, Joint_from_def(bodies, JointDef_new(b1, b2, anchor)))
          /\ last' = Call("create_joint", 0)
          /\ pre' = NoSnapshot
          /\ UNCHANGED <<featureVars, unitVars, bodies, arbiters, gravity, iterations, config, panicked,
                         created, mutated, nsteps, nwrites>>
     ELSE Panic("create_joint", 0)

\* A clear that drops the bodies and the joints but not the arbiters; used to
\* test that C24 depends on clear emptying all three collections.
Clear_KeepArbiters ==
  /\ ~panicked
  /\ bodies # <<>>
  /\ bodies' = <<>>
  /\ joints' = <<>>
  /\ created' = <<>>
  /\ mutated' = {}
  /\ last' = Call("clear", 0)
  /\ pre' = NoSnapshot
  /\ UNCHANGED <<featureVars, unitVars, arbiters, gravity, iterations, config, panicked,
                 nsteps, nwrites>>

\* world.clear()
Clear ==
  /\ ~panicked
  /\ bodies # <<>>
  /\ bodies' = <<>>
  /\ joints' = <<>>
  /\ arbiters' = EmptyMap
  /\ created' = <<>>
  /\ mutated' = {}
  /\ last' = Call("clear", 0)
  /\ pre' = NoSnapshot
  /\ UNCHANGED <<featureVars, unitVars, gravity, iterations, config, panicked, nsteps, nwrites>>

\* world.config.<flag> = !world.config.<flag>
ToggleConfig(flag) ==
  /\ ~panicked
  /\ nwrites < MaxWrites
  /\ config' = [config EXCEPT ![flag] = ~@]
  /\ nwrites' = nwrites + 1
  /\ last' = Call("config", 0)
  /\ pre' = NoSnapshot
  /\ UNCHANGED <<featureVars, unitVars, bodies, joints, arbiters, gravity, iterations, panicked,
                 created, mutated, nsteps>>

\* The caller writes body h through body_mut(h) or world.bodies[h].
WriteBody(h, b, op) ==
  /\ ~panicked
  /\ nwrites < MaxWrites
  /\ bodies' = [bodies EXCEPT ![h + 1] = b]
  /\ mutated' = mutated \cup {h}
  /\ nwrites' = nwrites + 1
  /\ last' = Call(op, 0)
  /\ pre' = NoSnapshot
  /\ UNCHANGED <<featureVars, unitVars, joints, arbiters, gravity, iterations, config, panicked,
                 created, nsteps>>

\* world.body_mut(h).add_force(f)
AddForce(h, f) == WriteBody(h, add_force(body(bodies, h), f), "add_force")

\* world.body_mut(h).torque = t
SetTorque(h, t) == WriteBody(h, [body(bodies, h) EXCEPT !.torque = t], "torque")

\* world.body_mut(h).velocity = v
SetVelocity(h, v) == WriteBody(h, [body(bodies, h) EXCEPT !.velocity = v], "velocity")

\* The world takes the value a call left it with.
Store(r, op, dt) ==
  IF r.ok
  THEN /\ bodies' = r.w.bodies
       /\ joints' = r.w.joints
       /\ arbiters' = r.w.arbiters
       /\ pre' = Snapshot(TheWorld)
       /\ nsteps' = nsteps + 1
       /\ last' = Call(op, dt)
       /\ UNCHANGED <<featureVars, unitVars, gravity, iterations, config, panicked, created, mutated, nwrites>>
  ELSE Panic(op, dt)

\* world.step(dt)
Step(dt) ==
  /\ ~panicked
  /\ nsteps < MaxSteps
  /\ Store(step(TheWorld, dt), "step", dt)

\* world.broad_phase()
BroadPhase ==
  /\ ~panicked
  /\ nsteps < MaxSteps
  /\ Store([ok |-> TRUE, w |-> broad_phase(TheWorld)], "broad_phase", 0)

Next ==
  \/ \E def \in BodyDefs : CreateBody(def)
  \/ \E b1, b2 \in 0..Len(bodies) : \E anchor \in Anchors : CreateJoint(b1, b2, anchor)
  \/ Clear
  \/ \E flag \in Flags : ToggleConfig(flag)
  \/ \E h \in Handles : \E f \in Forces : AddForce(h, f)
  \/ \E h \in Handles : \E t \in Torques : SetTorque(h, t)
  \/ \E h \in Handles : \E v \in Velocities : SetVelocity(h, v)
  \/ \E dt \in DtValues : Step(dt)
  \/ BroadPhase

Spec == Init /\ [][Next]_vars

-----------------------------------------------------------------------------
(* FeaturePair::key and FeaturePair::from_key on their own *)

FeaturePairs ==
  {FeaturePair_new(in1, out1, in2, out2) :
     in1 \in EdgeNumber, out1 \in EdgeNumber, in2 \in EdgeNumber, out2 \in EdgeNumber}

WorldIdle ==
  /\ gravity = Zero2
  /\ iterations = 0
  /\ config = WorldConfig_default
  /\ bodies = <<>>
  /\ joints = <<>>
  /\ arbiters = EmptyMap
  /\ panicked = FALSE
  /\ pre = NoSnapshot
  /\ created = <<>>
  /\ mutated = {}
  /\ nsteps = 0
  /\ nwrites = 0

InitFeature ==
  /\ WorldIdle
  /\ UnitIdle
  /\ fp \in FeaturePairs
  /\ packed = 0
  /\ unpacked = FeaturePair_default
  /\ last = Call("new", 0)

\* let k = fp.key();
Pack ==
  /\ last.op = "new"
  /\ packed' = key(fp)
  /\ last' = Call("key", 0)
  /\ UNCHANGED <<fp, unpacked, worldVars, unitVars>>

\* let back = FeaturePair::from_key(k);
Unpack ==
  /\ last.op = "key"
  /\ unpacked' = from_key(packed)
  /\ last' = Call("from_key", 0)
  /\ UNCHANGED <<fp, packed, worldVars, unitVars>>

NextFeature == Pack \/ Unpack

SpecFeature == InitFeature /\ [][NextFeature]_vars

-----------------------------------------------------------------------------
(* Calls made on their own, outside a world: the caller builds the arguments *)

\* The caller has built the arguments, one of inputs, and not yet made the call.
UnitInit(inputs) ==
  /\ WorldIdle
  /\ FeatureIdle
  /\ args \in inputs
  /\ ret = NoValue
  /\ last = Call("new", 0)

\* The call returns value.
Return(op, value) ==
  /\ ret' = value
  /\ last' = Call(op, 0)
  /\ UNCHANGED <<args, worldVars, featureVars>>

\* The call panics.
Fail(op) ==
  /\ panicked' = TRUE
  /\ last' = Call(op, 0)
  /\ UNCHANGED <<args, ret, featureVars, bodies, joints, arbiters, gravity, iterations,
                 config, pre, created, mutated, nsteps, nwrites>>

-----------------------------------------------------------------------------
(* Arbiter::update on its own, as the unit test of arbiter.rs calls it *)

MaxSlice == 3
MaxBodySlice == 3

\* A contact a caller builds by hand: Contact::default() with a feature, a
\* position and the three accumulated impulses set.
ContactWith(feature, position, impulses) ==
  [Contact_default EXCEPT !.feature = feature, !.position = position,
                          !.normal = Vec2(0, Scale), !.separation = -position.x,
                          !.pn = impulses[1], !.pt = impulses[2], !.pnb = impulses[3]]

OldFeatures ==
  {FeaturePair_new(Edge1, Edge2, Edge3, Edge4), FeaturePair_new(NoEdge, NoEdge, Edge4, Edge1)}
NewFeatures ==
  {FeaturePair_new(Edge1, Edge2, Edge3, Edge4), FeaturePair_new(NoEdge, NoEdge, Edge1, Edge2)}
OldImpulses == {<<0, 0, 0>>, <<Lit(125, 100), -Lit(5, 10), Lit(75, 100)>>}
NewImpulses == {<<0, 0, 0>>, <<Lit(3, 10), Lit(1, 10), Lit(2, 10)>>}

OldContacts == {ContactWith(f, Vec2(Lit(1, 10), 0), p) : f \in OldFeatures, p \in OldImpulses}
NewContacts == {ContactWith(f, Vec2(Lit(2, 10), Scale), p) : f \in NewFeatures, p \in NewImpulses}

\* Arbiters with 0, 1 or 2 contacts in use, and slices of 0 to MaxSlice new
\* contacts (the slices of MaxSlice contacts repeat one contact).
UpdateArbiters ==
  {[contacts |-> <<c1, c2>>, num_contacts |-> n, body1 |-> 0, body2 |-> 1, friction |-> 0] :
     c1 \in OldContacts, c2 \in OldContacts, n \in 0..MAX_POINTS}
UpdateSlices ==
  {<<>>} \cup {<<c>> : c \in NewContacts}
         \cup {<<c1, c2>> : c1 \in NewContacts, c2 \in NewContacts}
         \cup {[i \in 1..MaxSlice |-> c] : c \in NewContacts}
UpdateInputs ==
  [self : UpdateArbiters, new_contacts : UpdateSlices, warm_starting : BOOLEAN]

\* debug_assert!(new_contacts.len() <= 2)
UpdateAsserts(new_contacts) == Len(new_contacts) <= 2

\* arb.update(&new_contacts, warm_starting)
Update ==
  /\ last.op = "new"
  /\ IF UpdateAsserts(args.new_contacts)
     THEN Return("update", update(args.self, args.new_contacts, args.warm_starting))
     ELSE Fail("update")

InitUpdate == UnitInit(UpdateInputs)
NextUpdate == Update
SpecUpdate == InitUpdate /\ [][NextUpdate]_vars

-----------------------------------------------------------------------------
(* Two worlds that differ in one flag of WorldConfig, built and stepped side by
   side as the tests of tests/world_config.rs and tests/joint.rs do *)

MaxRunSteps == 2
MaxRunIterations == 2

\* for _ in 0..n { world.step(dt); }: r = [ok, w], ok FALSE once a step panics.
RECURSIVE RunSteps(_, _, _)
RunSteps(r, dt, n) ==
  IF n = 0 \/ ~r.ok THEN r ELSE RunSteps(step(r.w, dt), dt, n - 1)

\* World::with_config(Vec2::new(0.0, 0.0), iterations, config) and one
\* create_body per definition.
WorldOfDefs(defs, iterations_, config_) ==
  World([i \in DOMAIN defs |-> Body_from_def(defs[i])], <<>>, EmptyMap, Zero2,
        iterations_, config_)

\* The same world with flag set to value.
WithFlag(w, flag, value) == [w EXCEPT !.config[flag] = value]

\* for _ in 0..steps { w_on.step(dt); }  for _ in 0..steps { w_off.step(dt); }
\* on two worlds built alike but for flag; args = [w, dt, steps].
RunOnOff(flag, op) ==
  /\ last.op = "new"
  /\ IF /\ RunSteps([ok |-> TRUE, w |-> WithFlag(args.w, flag, TRUE)], args.dt, args.steps).ok
        /\ RunSteps([ok |-> TRUE, w |-> WithFlag(args.w, flag, FALSE)], args.dt, args.steps).ok
     THEN Return(op,
                 [on |-> RunSteps([ok |-> TRUE, w |-> WithFlag(args.w, flag, TRUE)],
                                  args.dt, args.steps).w,
                  off |-> RunSteps([ok |-> TRUE, w |-> WithFlag(args.w, flag, FALSE)],
                                   args.dt, args.steps).w])
     ELSE Fail(op)

\* The worlds of the position-correction test: two dynamic boxes that overlap,
\* at rest, without gravity, stepped once.  The first is 2 x 2 at the origin;
\* the second is 2 x 2 or 1 x 1, is moved off the first's centre by less than
\* the first's half-width plus its own, and may be turned.
CorrectionOffsets == {-Lit(125, 100), -Lit(5, 10), 0, Lit(5, 10), Lit(125, 100)}
CorrectionCentres == {Vec2(x, y) : x \in CorrectionOffsets, y \in CorrectionOffsets} \ {Zero2}
CorrectionWidths == {Vec2(2 * Scale, 2 * Scale), Vec2(Scale, Scale)}
CorrectionRotations == {0, Lit(3, 10)}
CorrectionDts == {Lit(1, 100), Lit(1, 10)}
CorrectionInputs ==
  {[w |-> WorldOfDefs(<<BodyDef(Vec2(2 * Scale, 2 * Scale), Zero2, 0, Lit(2, 10), Some(Scale)),
                        BodyDef(w, p, r, Lit(2, 10), Some(Scale))>>,
                      n, WorldConfig_default),
    dt |-> dt, steps |-> 1] :
     w \in CorrectionWidths, p \in CorrectionCentres, r \in CorrectionRotations,
     dt \in CorrectionDts, n \in 1..MaxRunIterations}

InitCorrection == UnitInit(CorrectionInputs)
NextCorrection == RunOnOff("position_correction", "step_on_off")
SpecCorrection == InitCorrection /\ [][NextCorrection]_vars

\* The worlds of the warm-starting test: two dynamic 1 x 1 boxes on the x axis,
\* apart from each other (as in the test) or overlapping, a joint between them
\* anchored at the origin or off the line of their centres, the caller having
\* set velocities that push them apart.
\* world.bodies[i].velocity = v
WithVelocities(w, v1, v2) ==
  [w EXCEPT !.bodies[1].velocity = v1, !.bodies[2].velocity = v2]

\* world.create_joint(JointDef::new(b1, b2, anchor))
WithJoint(w, b1, b2, anchor) ==
  [w EXCEPT !.joints = Append(@, Joint_from_def(w.bodies, JointDef_new(b1, b2, anchor)))]

WarmMasses == {Scale, 2 * Scale}
WarmCentres == {Lit(4, 10), Scale}
WarmSpeeds == {2 * Scale}
WarmAnchors == {Zero2, Vec2(0, Lit(5, 10))}
WarmDts == {Lit(1, 100), Lit(1, 10)}
WarmInputs ==
  {[w |-> WithVelocities(
            WithJoint(WorldOfDefs(<<BodyDef(Vec2(Scale, Scale), Vec2(-x, 0), 0, Lit(2, 10),
                                            Some(m1)),
                                    BodyDef(Vec2(Scale, Scale), Vec2(x, 0), 0, Lit(2, 10),
                                            Some(m2))>>,
                                  n, WorldConfig_default),
                      0, 1, anchor),
            Vec2(-speed, 0), Vec2(speed, 0)),
    dt |-> dt, steps |-> steps] :
     m1 \in WarmMasses, m2 \in WarmMasses, x \in WarmCentres, speed \in WarmSpeeds,
     anchor \in WarmAnchors, dt \in WarmDts, steps \in 1..MaxRunSteps,
     n \in 1..MaxRunIterations}

InitWarm == UnitInit(WarmInputs)
NextWarm == RunOnOff("warm_starting", "run_on_off")
SpecWarm == InitWarm /\ [][NextWarm]_vars

-----------------------------------------------------------------------------
(* bodies_two_mut called on its own, on a slice of bodies that differ from each
   other, with handles in range or one past the end; the caller writes a
   velocity through each of the two views it gets *)

SliceBodies ==
  {Body_from_def(BodyDef(Vec2(Scale, Scale), Vec2(x, 0), 0, Lit(2, 10), Some(Scale))) :
     x \in {0, 2 * Scale, 4 * Scale}}
BodySlices ==
  {sl \in (SliceBodies \X SliceBodies) \cup (SliceBodies \X SliceBodies \X SliceBodies) :
     \A m, n \in DOMAIN sl : m # n => sl[m] # sl[n]}
TwoMutInputs ==
  {[bodies |-> sl, a |-> a, b |-> b] :
     sl \in BodySlices, a \in 0..MaxBodySlice, b \in 0..MaxBodySlice}

\* first.velocity = (1, 0); second.velocity = (0, 1);
FirstWrite == Vec2(Scale, 0)
SecondWrite == Vec2(0, Scale)

\* let (first, second) = bodies_two_mut(&mut bodies, a, b); and the two writes.
\* ret.views are the bodies as borrowed, ret.bodies the slice after the writes.
TwoMut ==
  /\ last.op = "new"
  /\ IF TwoMutAsserts(args.bodies, args.a, args.b)
     THEN Return("bodies_two_mut",
                 [views |-> bodies_two_mut(args.bodies, args.a, args.b),
                  bodies |-> StoreTwo(args.bodies, args.a, args.b,
                                      [bodies_two_mut(args.bodies, args.a, args.b)[1]
                                         EXCEPT !.velocity = FirstWrite],
                                      [bodies_two_mut(args.bodies, args.a, args.b)[2]
                                         EXCEPT !.velocity = SecondWrite])])
     ELSE Fail("bodies_two_mut")

InitTwoMut == UnitInit(TwoMutInputs)
NextTwoMut == TwoMut
SpecTwoMut == InitTwoMut /\ [][NextTwoMut]_vars

-----------------------------------------------------------------------------
(* create_joint called on its own, on a world of up to MaxBodies bodies that
   already holds up to MaxOldJoints joints, with handles in range or past the
   end *)

MaxOldJoints == 2

BuiltBodies == {<<>>} \cup {<<p>> : p \in SliceBodies} \cup (BodySlices \cap (SliceBodies \X SliceBodies))

\* The joints a caller has made before: each between the first and the last body.
BuiltJoints(bodies_) ==
  IF bodies_ = <<>> THEN {<<>>}
  ELSE {[i \in 1..n |-> Joint_from_def(bodies_, JointDef_new(0, Len(bodies_) - 1, Zero2))] :
          n \in 0..MaxOldJoints}

CreateJointDefs ==
  {JointDef_new(b1, b2, anchor) : b1 \in 0..MaxBodies, b2 \in 0..MaxBodies,
                                  anchor \in {Zero2, Vec2(Scale, Scale)}}

\* let id = self.joints.len();
JointId(joints_) == Len(joints_)

\* world.create_joint(def): from_def runs, and may panic, before the push.
CreateJointCall ==
  /\ last.op = "new"
  /\ IF JointFromDefAsserts(bodies, args)
     THEN /\ joints' = Append(joints, Joint_from_def(bodies, args))
          /\ ret' = JointId(joints)
          /\ last' = Call("create_joint", 0)
          /\ UNCHANGED <<args, featureVars, bodies, arbiters, gravity, iterations, config,
                         panicked, pre, created, mutated, nsteps, nwrites>>
     ELSE Fail("create_joint")

InitCreateJoint ==
  /\ gravity = Zero2
  /\ iterations = 1
  /\ config = WorldConfig_default
  /\ bodies \in BuiltBodies
  /\ joints \in BuiltJoints(bodies)
  /\ arbiters = EmptyMap
  /\ panicked = FALSE
  /\ last = Call("new", 0)
  /\ pre = NoSnapshot
  /\ created = bodies
  /\ mutated = {}
  /\ nsteps = 0
  /\ nwrites = 0
  /\ FeatureIdle
  /\ args \in CreateJointDefs
  /\ ret = NoValue
NextCreateJoint == CreateJointCall
SpecCreateJoint == InitCreateJoint /\ [][NextCreateJoint]_vars

-----------------------------------------------------------------------------
(* Body::from_def called on its own, on definitions with extents and masses that
   are negative, zero or positive *)

FromDefExtents == {-Scale, 0, Scale}
FromDefMasses == {None, Some(-Scale), Some(0), Some(Scale), Some(2 * Scale)}
FromDefInputs ==
  {BodyDef(Vec2(wx, wy), Zero2, r, Lit(2, 10), m) :
     wx \in FromDefExtents, wy \in FromDefExtents, r \in {0, Lit(3, 10)}, m \in FromDefMasses}

\* Body::from_def(def)
FromDef ==
  /\ last.op = "new"
  /\ IF FromDefAsserts(args)
     THEN Return("from_def", Body_from_def(args))
     ELSE Fail("from_def")

InitFromDef == UnitInit(FromDefInputs)
NextFromDef == FromDef
SpecFromDef == InitFromDef /\ [][NextFromDef]_vars

-----------------------------------------------------------------------------
(* collide called on its own, on two boxes in both argument orders: the first,
   a square, a slab or a thin bar, at the origin, the second anywhere on a grid
   around it, each turned or not, as in tests/collision.rs *)

CollideOffsets ==
  {-Lit(25, 10), -Lit(125, 100), -Lit(75, 100), -Lit(5, 10), 0,
   Lit(5, 10), Lit(75, 100), Lit(125, 100), Lit(25, 10)}
\* The grid, and two centres that lie inside the first box whatever its shape.
CollideCentres ==
  {Vec2(x, y) : x \in CollideOffsets, y \in CollideOffsets}
    \cup {Vec2(-Lit(9, 10), 0), Vec2(Lit(9, 10), 0)}
CollideInputs ==
  {[a |-> Body_from_def(BodyDef(wa, Zero2, ra, Lit(2, 10), Some(Scale))),
    b |-> Body_from_def(BodyDef(wb, p, rb, Lit(2, 10), Some(Scale)))] :
     wa \in {Vec2(2 * Scale, 2 * Scale), Vec2(2 * Scale, Scale), Vec2(2 * Scale, Lit(2, 10))},
     ra \in {0, Lit(3, 10)},
     wb \in {Vec2(2 * Scale, 2 * Scale), Vec2(Scale, Scale)}, rb \in {0, Lit(5, 10)},
     p \in CollideCentres}

\* let mut contacts = [Contact::default(); 2];
TwoContacts == <<Contact_default, Contact_default>>

\* let n = collide(&mut contacts, a, b, &world); and the same with b, a.
Collide ==
  /\ last.op = "new"
  /\ Return("collide", [ab |-> collide(TwoContacts, args.a, args.b),
                        ba |-> collide(TwoContacts, args.b, args.a)])

InitCollide == UnitInit(CollideInputs)
NextCollide == Collide
SpecCollide == InitCollide /\ [][NextCollide]_vars

-----------------------------------------------------------------------------
(* Switching scenes: the caller starts from a world that has been played (a box
   on a slab, a joint between them, one step taken, so that the world holds an
   arbiter), clears it and builds and steps the next scene *)

BuiltScene == WithJoint(WorldOfDefs(<<Slab, Box>>, 1, WorldConfig_default), 0, 1, Zero2)
PlayedScene == step(BuiltScene, Lit(1, 10)).w

InitScene ==
  /\ gravity = BuiltScene.gravity
  /\ iterations = BuiltScene.iterations
  /\ config = BuiltScene.config
  /\ bodies = PlayedScene.bodies
  /\ joints = PlayedScene.joints
  /\ arbiters = PlayedScene.arbiters
  /\ panicked = FALSE
  /\ last = Call("step", Lit(1, 10))
  /\ pre = Snapshot(BuiltScene)
  /\ created = BuiltScene.bodies
  /\ mutated = {}
  /\ nsteps = 0
  /\ nwrites = 0
  /\ FeatureIdle
  /\ UnitIdle
SpecScene == InitScene /\ [][Next]_vars

-----------------------------------------------------------------------------
(* World::step called on its own, on a world the caller has built *)

MaxStepIterations == 2

\* A static slab, a dynamic box resting in it, and a second dynamic box beside
\* the first: overlapping it on either side, or out of reach of both.  The two
\* boxes move towards the slab and each other; a joint may tie the boxes
\* together or the first box to the slab.
StepCentres == {-Lit(8, 10), Lit(8, 10), 3 * Scale}
StepJoints == {<<>>, <<1, 2>>, <<0, 1>>}
StepDts == {0, Lit(1, 10)}
StepConfigs == {WorldConfig(a, ws, pc) : a \in BOOLEAN, ws \in BOOLEAN, pc \in BOOLEAN}
StepBodies(x) ==
  <<Slab, Box, BodyDef(Vec2(Scale, Scale), Vec2(x, -Lit(16, 10)), 0, Lit(2, 10), Some(2 * Scale))>>
StepWorld(x, j, n, c) ==
  LET built == [WorldOfDefs(StepBodies(x), n, c) EXCEPT
                  !.bodies[2].velocity = Vec2(Lit(5, 10), -Scale),
                  !.bodies[3].velocity = Vec2(-Lit(5, 10), -2 * Scale)]
  IN IF j = <<>> THEN built ELSE WithJoint(built, j[1], j[2], Vec2(0, -Scale))
StepInputs ==
  {[w |-> StepWorld(x, j, n, c), dt |-> dt] :
     x \in StepCentres, j \in StepJoints, n \in 0..MaxStepIterations, c \in StepConfigs,
     dt \in StepDts}

\* world.step(dt)
StepCall ==
  /\ last.op = "new"
  /\ IF step(args.w, args.dt).ok
     THEN Return("step", step(args.w, args.dt).w)
     ELSE Fail("step")

InitStep == UnitInit(StepInputs)
NextStep == StepCall
SpecStep == InitStep /\ [][NextStep]_vars

-----------------------------------------------------------------------------
(* Joint::pre_step and Joint::apply_impulse called on their own, as step calls
   them: pre_step once, then apply_impulse once per iteration *)

MaxApplies == 2

\* Two bodies, a rigid joint made between them at anchor, the second body then
\* moved by shift (so that the anchors are apart when shift is not zero), and
\* velocities given to both.
JointBodyDefs ==
  {BodyDef(Vec2(Scale, Scale), Vec2(-Scale, 0), 0, Lit(2, 10), Some(Scale)),
   BodyDef(Vec2(Scale, 2 * Scale), Vec2(-Scale, Lit(5, 10)), Lit(5, 10), Lit(2, 10),
           Some(2 * Scale)),
   BodyDef(Vec2(Scale, Scale), Vec2(-Scale, 0), 0, Lit(2, 10), None)}
JointAnchors == {Zero2, Vec2(0, Lit(5, 10))}
JointShifts == {Zero2, Vec2(Lit(1, 10), Lit(5, 100))}
JointSpins == {0, 2 * Scale}
JointInvDts == {10 * Scale, 100 * Scale}
JointConfigs == {WorldConfig(TRUE, ws, pc) : ws \in BOOLEAN, pc \in BOOLEAN}
JointBodies(def, shift, spin) ==
  [[i \in 1..2 |-> Body_from_def(<<def, BodyDef(Vec2(Scale, Scale), Vec2(Scale, 0), 0,
                                                Lit(2, 10), Some(Scale))>>[i])]
     EXCEPT ![1].velocity = Vec2(IF def.mass = None THEN 0 ELSE -5 * Scale, 0),
            ![1].angular_velocity = IF def.mass = None THEN 0 ELSE spin,
            ![2].velocity = Vec2(5 * Scale, Scale),
            ![2].angular_velocity = -spin,
            ![2].position = VAdd(Vec2(Scale, 0), shift)]
JointInputs ==
  {[joint |-> Joint_from_def(JointBodies(def, Zero2, 0), JointDef_new(0, 1, anchor)),
    bodies |-> JointBodies(def, shift, spin),
    inv_dt |-> inv_dt, config |-> c] :
     def \in JointBodyDefs, anchor \in JointAnchors, shift \in JointShifts,
     spin \in JointSpins, inv_dt \in JointInvDts, c \in JointConfigs}

\* What a call left, with what it found and the number of apply_impulse calls.
JointCalled(r, found, applies) ==
  [joint |-> r.joint, bodies |-> r.bodies, found |-> found, applies |-> applies]

\* joint.pre_step(inv_dt, bodies, config)
JointPreStep ==
  /\ last.op = "new"
  /\ IF Joint_pre_step(args.joint, args.inv_dt, args.bodies, args.config).ok
     THEN Return("pre_step",
                 JointCalled(Joint_pre_step(args.joint, args.inv_dt, args.bodies, args.config),
                             [joint |-> args.joint, bodies |-> args.bodies], 0))
     ELSE Fail("pre_step")

\* joint.apply_impulse(bodies)
JointApplyImpulse ==
  /\ last.op \in {"pre_step", "apply_impulse"}
  /\ ~panicked
  /\ ret.applies < MaxApplies
  /\ IF Joint_apply_impulse(ret.joint, ret.bodies).ok
     THEN Return("apply_impulse",
                 JointCalled(Joint_apply_impulse(ret.joint, ret.bodies),
                             [joint |-> ret.joint, bodies |-> ret.bodies],
                             ret.applies + 1))
     ELSE Fail("apply_impulse")

InitJoint == UnitInit(JointInputs)
NextJoint == JointPreStep \/ JointApplyImpulse
SpecJoint == InitJoint /\ [][NextJoint]_vars

-----------------------------------------------------------------------------
(* World::step called on a world of dynamic bodies only, without gravity and
   without forces *)

\* Three dynamic 1 x 1 boxes: the second, turned, overlaps the first; the third
\* overlaps both, overlaps the first alone, or is out of reach.  They move into
\* each other; a joint may tie the first two.  The world is stepped as built,
\* or after one step has run (so that impulses have been accumulated).
FreeCentres == {Vec2(Lit(4, 10), -Lit(6, 10)), Vec2(-Lit(7, 10), Lit(3, 10)), Vec2(3 * Scale, 0)}
FreeMasses == {<<Scale, Scale, Scale>>, <<2 * Scale, Scale, 2 * Scale>>}
FreeJoints == {<<>>, <<0, 1>>}
FreeDt == Lit(1, 10)
FreeBodies(p, m) ==
  <<BodyDef(Vec2(Scale, Scale), Zero2, 0, Lit(2, 10), Some(m[1])),
    BodyDef(Vec2(Scale, Scale), Vec2(Lit(8, 10), Lit(2, 10)), Lit(3, 10), Lit(2, 10), Some(m[2])),
    BodyDef(Vec2(Scale, Scale), p, 0, Lit(2, 10), Some(m[3]))>>
FreeWorld(p, m, j, n, c) ==
  LET built == [WorldOfDefs(FreeBodies(p, m), n, c) EXCEPT
                  !.bodies[1].velocity = Vec2(Scale, 0),
                  !.bodies[2].velocity = Vec2(-2 * Scale, Lit(5, 10)),
                  !.bodies[3].velocity = Vec2(Lit(5, 10), Scale)]
  IN IF j = <<>> THEN built ELSE WithJoint(built, j[1], j[2], Vec2(Lit(4, 10), Lit(1, 10)))
FreeInputs ==
  {[w |-> RunSteps([ok |-> TRUE, w |-> FreeWorld(p, m, j, n, c)], FreeDt, before).w,
    dt |-> FreeDt] :
     p \in FreeCentres, m \in FreeMasses, j \in FreeJoints, n \in 0..MaxStepIterations,
     c \in StepConfigs, before \in 0..1}

InitFree == UnitInit(FreeInputs)
SpecFree == InitFree /\ [][NextStep]_vars

-----------------------------------------------------------------------------
(* clip_segment_to_line called on its own, as its unit test calls it *)

\* The two input vertices, with edges that tell them apart; the plane's normal,
\* along an axis or turned; offsets that put vertices inside, outside and on
\* the plane.
ClipXs == {-Scale, 0, Lit(5, 10), Scale}
ClipYs == {-Lit(5, 10), Lit(3, 10)}
ClipPoints == {Vec2(x, y) : x \in ClipXs, y \in ClipYs}
ClipNormals ==
  {Vec2(Scale, 0), Vec2(-Scale, 0), Vec2(0, Scale), Vec2(Lit(6, 10), Lit(8, 10)),
   Vec2(Lit(955, 1000), -Lit(296, 1000))}
ClipOffsets == {-Lit(5, 10), 0, Lit(5, 10)}
ClipEdges == {Edge1, Edge3}
ClipInputs ==
  {[v_in |-> <<ClipVertex(p, FeaturePair_new(NoEdge, NoEdge, Edge4, Edge1)),
               ClipVertex(q, FeaturePair_new(NoEdge, NoEdge, Edge1, Edge2))>>,
    normal |-> n, offset |-> o, clip_edge |-> e] :
     p \in ClipPoints, q \in ClipPoints, n \in ClipNormals, o \in ClipOffsets,
     e \in ClipEdges}

\* let mut v_out = [ClipVertex::default(); 2];
\* let n = clip_segment_to_line(&mut v_out, &v_in, normal, offset, clip_edge);
Clip ==
  /\ last.op = "new"
  /\ IF clip_segment_to_line(<<ClipVertex_default, ClipVertex_default>>, args.v_in,
                             args.normal, args.offset, args.clip_edge).oob
     THEN Fail("clip_segment_to_line")
     ELSE Return("clip_segment_to_line",
                 clip_segment_to_line(<<ClipVertex_default, ClipVertex_default>>, args.v_in,
                                      args.normal, args.offset, args.clip_edge))

InitClip == UnitInit(ClipInputs)
NextClip == Clip
SpecClip == InitClip /\ [][NextClip]_vars

-----------------------------------------------------------------------------
(* The claims *)

\* The last call was a step that returned.
Stepped == last.op = "step" /\ ~panicked
\* The last call ran the broad phase and returned.
Refreshed == last.op \in {"step", "broad_phase"} /\ ~panicked

\* Body h was created static and the caller has not written to it.
StaticUntouched(h) == created[h + 1].inv_mass = 0 /\ h \notin mutated

\* Body h is in an arbiter of the map, or a joint is attached to it.
InContact(h) == \E k \in DOMAIN arbiters : h \in {k[1], k[2]}
Jointed(h) == \E i \in DOMAIN joints : h \in {joints[i].body1, joints[i].body2}

\* C1: a body created with mass = None and not written to by the caller has,
\* after any sequence of calls, the position, rotation, velocity and angular
\* velocity it was created with.
C1_StaticBodiesNeverMove ==
  \A h \in Handles :
    StaticUntouched(h) =>
      /\ body(bodies, h).position = created[h + 1].position
      /\ body(bodies, h).rotation = created[h + 1].rotation
      /\ body(bodies, h).velocity = created[h + 1].velocity
      /\ body(bodies, h).angular_velocity = created[h + 1].angular_velocity

\* C1's case: two steps under gravity have run, the second with dt # 0, on a
\* static body that a dynamic body overlaps (with an impulse built up in the
\* contact) and that a joint ties to a dynamic body.
C1_Witness ==
  /\ Stepped /\ nsteps = 2 /\ last.dt # 0 /\ gravity # Zero2
  /\ \E h \in Handles :
       /\ StaticUntouched(h)
       /\ \E k \in DOMAIN arbiters :
            h \in {k[1], k[2]} /\ arbiters[k].contacts[1].pn > 0
       /\ \E i \in DOMAIN joints :
            /\ h \in {joints[i].body1, joints[i].body2}
            /\ joints[i].p # Zero2

\* C2: whenever collide(a, b) returns at least one contact for two bodies of
\* the world, every returned contact's normal points from a toward b:
\* normal . (position_b - position_a) >= 0.
C2_NormalPointsFromAToB ==
  \A a, b \in Handles :
    a # b =>
      \A i \in 1..collide(<<Contact_default, Contact_default>>,
                          body(bodies, a), body(bodies, b)).num_contacts :
        dot(collide(<<Contact_default, Contact_default>>,
                    body(bodies, a), body(bodies, b)).contacts[i].normal,
            VSub(body(bodies, b).position, body(bodies, a).position)) >= 0

\* C3: after a broad phase, each arbiter of the map has the number of contacts
\* collide returned for its pair in that broad phase, newly inserted or updated
\* in place.
C3_ArbiterHoldsCollideCount ==
  Refreshed =>
    \A k \in DOMAIN arbiters :
      arbiters[k].num_contacts =
        collide(<<Contact_default, Contact_default>>,
                body(pre.bodies, k[1]), body(pre.bodies, k[2])).num_contacts

\* C4: step(0.0) leaves every body's velocity and angular velocity as they were.
C4_ZeroDtKeepsVelocity ==
  (Stepped /\ last.dt = 0) =>
    \A h \in Handles :
      /\ body(bodies, h).velocity = body(pre.bodies, h).velocity
      /\ body(bodies, h).angular_velocity = body(pre.bodies, h).angular_velocity

\* C5: step(0.0) leaves every body's position and rotation as they were.
C5_ZeroDtKeepsPosition ==
  (Stepped /\ last.dt = 0) =>
    \A h \in Handles :
      /\ body(bodies, h).position = body(pre.bodies, h).position
      /\ body(bodies, h).rotation = body(pre.bodies, h).rotation

\* C5's case: step(0.0) has run on a world with a contact, in which a body
\* ends the step with a velocity and an angular velocity that are not zero.
C5_Witness ==
  /\ Stepped /\ last.dt = 0
  /\ DOMAIN arbiters # {}
  /\ \E h \in Handles :
       /\ body(bodies, h).velocity # Zero2
       /\ body(bodies, h).angular_velocity # 0

\* C6: step(dt) with dt <= 0 leaves the arbiter map as it was: the same keys,
\* and every arbiter's contacts and accumulated impulses.
C6_NonPositiveDtKeepsArbiters ==
  (Stepped /\ last.dt <= 0) => arbiters = pre.arbiters

\* C7: step(dt) with dt < 0 leaves every body's position, rotation, velocity
\* and angular velocity as they were.
C7_NegativeDtNoIntegration ==
  (Stepped /\ last.dt < 0) =>
    \A h \in Handles :
      /\ body(bodies, h).position = body(pre.bodies, h).position
      /\ body(bodies, h).rotation = body(pre.bodies, h).rotation
      /\ body(bodies, h).velocity = body(pre.bodies, h).velocity
      /\ body(bodies, h).angular_velocity = body(pre.bodies, h).angular_velocity

\* C8: after any step, every body's force is (0, 0) and its torque is 0.
C8_ForcesClearedAfterStep ==
  Stepped =>
    \A h \in Handles :
      body(bodies, h).force = Zero2 /\ body(bodies, h).torque = 0

\* C8's case: a step with dt <= 0 has run on a world in which a static body
\* carried a force or a torque.
C8_Witness ==
  /\ Stepped /\ last.dt <= 0
  /\ \E h \in Handles :
       /\ body(pre.bodies, h).inv_mass = 0
       /\ body(pre.bodies, h).force # Zero2 \/ body(pre.bodies, h).torque # 0

\* C9: one step(dt), dt > 0, takes a dynamic body in no contact and no joint
\* from (x, r, v, w) with force f and torque t to v' = v + dt*(g + inv_mass*f),
\* w' = w + dt*inv_i*t, x' = x + dt*v', r' = r + dt*w'; from rest at the origin
\* with no force, v' = dt*g and x' = dt*dt*g.
C9_SemiImplicitEuler ==
  (Stepped /\ last.dt > 0) =>
    \A h \in Handles :
      (body(pre.bodies, h).inv_mass # 0 /\ ~InContact(h) /\ ~Jointed(h)) =>
        LET b == body(pre.bodies, h)
            v1 == VAdd(b.velocity,
                       VScale(last.dt, VAdd(gravity, VScale(b.inv_mass, b.force))))
            w1 == b.angular_velocity + Mul(Mul(last.dt, b.inv_i), b.torque)
        IN /\ body(bodies, h).velocity = v1
           /\ body(bodies, h).angular_velocity = w1
           /\ body(bodies, h).position = VAdd(b.position, VScale(last.dt, v1))
           /\ body(bodies, h).rotation = b.rotation + Mul(last.dt, w1)
           /\ (b.position = Zero2 /\ b.velocity = Zero2 /\ b.force = Zero2) =>
                /\ body(bodies, h).velocity = VScale(last.dt, gravity)
                /\ body(bodies, h).position =
                     VScale(last.dt, VScale(last.dt, gravity))

\* C9's case: a step with dt > 0 has run under gravity on a dynamic body of
\* mass 2 in no contact and no joint that was moving and carried a force.
C9_Witness ==
  /\ Stepped /\ last.dt > 0 /\ gravity # Zero2
  /\ \E h \in Handles :
       /\ body(pre.bodies, h).inv_mass = Lit(1, 2)
       /\ ~InContact(h) /\ ~Jointed(h)
       /\ body(pre.bodies, h).velocity # Zero2
       /\ body(pre.bodies, h).force # Zero2

\* C10: from_key(fp.key()) = fp for every feature pair over the five edge
\* values, and no other feature pair has fp's key.
C10_KeyRoundTrip ==
  /\ last.op = "from_key" => unpacked = fp
  /\ last.op \in {"key", "from_key"} =>
       \A g \in FeaturePairs : key(g) = packed => g = fp

\* C10's case: a feature pair with four different edges has been packed and
\* read back.
C10_Witness ==
  /\ last.op = "from_key"
  /\ fp = FeaturePair_new(Edge4, Edge3, Edge2, Edge1)
  /\ unpacked = fp

Touching(bodies_, i, j) ==
  collide(<<Contact_default, Contact_default>>,
          body(bodies_, i), body(bodies_, j)).num_contacts > 0

\* C12: right after a broad phase, for every pair of bodies i < j the map has
\* an entry under the key (i, j) exactly when one of the two is dynamic and
\* collide reports a contact for the pair as the broad phase found the bodies;
\* the map has no other key, so no pair has two arbiters and a pair that no
\* longer touches has none; ArbiterKey::new gives the same key for (a, b) and
\* (b, a), the smaller handle first.
C12_ArbiterPerTouchingPair ==
  /\ \A a, b \in Handles :
       /\ ArbiterKey_new(a, b) = ArbiterKey_new(b, a)
       /\ ArbiterKey_new(a, b) = <<Min(a, b), Max(a, b)>>
  /\ Refreshed =>
       /\ DOMAIN arbiters \subseteq {<<i, j>> : i, j \in Handles}
       /\ \A i, j \in Handles :
            /\ i >= j => <<i, j>> \notin DOMAIN arbiters
            /\ i < j =>
                 (<<i, j>> \in DOMAIN arbiters <=>
                    /\ body(pre.bodies, i).inv_mass # 0 \/ body(pre.bodies, j).inv_mass # 0
                    /\ Touching(pre.bodies, i, j))

\* C12's case: a broad phase has found a pair that had an arbiter no longer
\* touching, and has removed the arbiter.
C12_Witness ==
  /\ Refreshed
  /\ \E k \in DOMAIN pre.arbiters :
       /\ k \notin DOMAIN arbiters
       /\ ~Touching(pre.bodies, k[1], k[2])

\* The world as the last step or broad_phase found it.
PreWorld == World(pre.bodies, pre.joints, pre.arbiters, gravity, iterations, config)

\* What step's iterations start from: w is the world after the broad phase and
\* "Integrate forces", and the result the solver's view after the pre-steps.
PreStepped(w, inv_dt) ==
  JointsPreStep(1,
                ArbitersPreStep(KeySeq(w.arbiters, Len(w.bodies)),
                                [bodies |-> w.bodies, joints |-> w.joints,
                                 arbiters |-> w.arbiters, ok |-> TRUE],
                                inv_dt, w.config),
                inv_dt, w.config)

ForcesIntegrated(w, dt) ==
  [w EXCEPT !.bodies = [i \in DOMAIN w.bodies |-> IntegrateForce(w.bodies[i], dt, w.gravity)]]

\* The solver's view at the start of the iterations of the last step.
SolverInput ==
  PreStepped(ForcesIntegrated(broad_phase(PreWorld), last.dt),
             IF last.dt <= 0 THEN 0 ELSE Div(Scale, last.dt))

\* The loop of the first apply_impulse call of the last step, on the first
\* arbiter of the map, after its first and after its second contact.
FirstKey(s) == Head(KeySeq(s.arbiters, Len(s.bodies)))
AfterContact1(s) ==
  ApplyImpulseContact(ImpulseState(s.arbiters[FirstKey(s)], s.bodies), 1, config)
AfterContact2(s) == ApplyImpulseContact(AfterContact1(s), 2, config)

\* The contacts in use of every arbiter of the map.
ContactsInUse(arbiters_) ==
  {ki \in (DOMAIN arbiters_) \X (1..MAX_POINTS) : ki[2] <= arbiters_[ki[1]].num_contacts}

\* C13: with accumulate_impulses on, every contact in use of every arbiter has
\* pn >= 0 in every state (after any calls and flag changes) and after each
\* contact of an apply_impulse call; with accumulate_impulses off, the normal
\* impulse an apply_impulse call applies to the bodies for a contact is >= 0.
C13_ContactsOnlyPush ==
  /\ config.accumulate_impulses =>
       \A ki \in ContactsInUse(arbiters) : arbiters[ki[1]].contacts[ki[2]].pn >= 0
  /\ (Stepped /\ DOMAIN arbiters # {}) =>
       /\ config.accumulate_impulses =>
            /\ AfterContact1(SolverInput).arb.contacts[1].pn >= 0
            /\ AfterContact2(SolverInput).arb.contacts[1].pn >= 0
            /\ AfterContact2(SolverInput).arb.num_contacts = MAX_POINTS =>
                 AfterContact2(SolverInput).arb.contacts[MAX_POINTS].pn >= 0
       /\ ~config.accumulate_impulses =>
            /\ AfterContact1(SolverInput).dpn >= 0
            /\ AfterContact2(SolverInput).dpn >= 0

\* C13's case: a step has run with accumulate_impulses off, after a step with
\* it on that built up a normal impulse, and has pushed on a contact whose
\* bodies were closing (the impulse before the clamp was positive) and not on
\* another (the clamp acted).
C13_Witness ==
  /\ Stepped /\ nsteps = 2 /\ ~config.accumulate_impulses
  /\ DOMAIN arbiters # {}
  /\ \E ki \in ContactsInUse(arbiters) : arbiters[ki[1]].contacts[ki[2]].pn > 0
  /\ \/ AfterContact1(SolverInput).dpn > 0 /\ AfterContact2(SolverInput).dpn = 0
     \/ AfterContact1(SolverInput).dpn = 0 /\ AfterContact2(SolverInput).dpn > 0

\* C14: with accumulate_impulses on, after a step every contact in use has
\* |pt| <= friction * pn, and so it has after each contact of an apply_impulse
\* call; with accumulate_impulses off, the tangent impulse an apply_impulse call
\* applies for a contact has |dpt| <= friction * dpn, dpn being the normal
\* impulse it applied for that contact.
C14_CoulombFriction ==
  (Stepped /\ DOMAIN arbiters # {}) =>
    /\ config.accumulate_impulses =>
         /\ \A ki \in ContactsInUse(arbiters) :
              Abs(arbiters[ki[1]].contacts[ki[2]].pt)
                <= Mul(arbiters[ki[1]].friction, arbiters[ki[1]].contacts[ki[2]].pn)
         /\ Abs(AfterContact1(SolverInput).arb.contacts[1].pt)
              <= Mul(AfterContact1(SolverInput).arb.friction,
                     AfterContact1(SolverInput).arb.contacts[1].pn)
    /\ ~config.accumulate_impulses =>
         /\ Abs(AfterContact1(SolverInput).dpt)
              <= Mul(AfterContact1(SolverInput).arb.friction, AfterContact1(SolverInput).dpn)
         /\ Abs(AfterContact2(SolverInput).dpt)
              <= Mul(AfterContact2(SolverInput).arb.friction, AfterContact2(SolverInput).dpn)

\* C14's case: a step has run with accumulate_impulses on and has left a
\* contact at the edge of the friction cone with a tangent impulse that is not
\* zero (the clamp acted).
C14_Witness ==
  /\ Stepped /\ config.accumulate_impulses
  /\ \E ki \in ContactsInUse(arbiters) :
       /\ arbiters[ki[1]].contacts[ki[2]].pt # 0
       /\ Abs(arbiters[ki[1]].contacts[ki[2]].pt)
            = Mul(arbiters[ki[1]].friction, arbiters[ki[1]].contacts[ki[2]].pn)

\* The velocity of the second body of bodies_ with respect to the first, along
\* the direction d (not normalised).
SeparatingVelocity(bodies_, d) == dot(VSub(bodies_[2].velocity, bodies_[1].velocity), d)

\* C15: for two overlapping dynamic boxes at rest without gravity, after one
\* step(dt), dt > 0, the velocity of the second box with respect to the first
\* along the direction from the first's centre to the second's is at least as
\* large in the world with position_correction on as in the world with it off.
C15_CorrectionSeparatesMore ==
  last.op = "step_on_off" =>
    SeparatingVelocity(ret.on.bodies, VSub(args.w.bodies[2].position, args.w.bodies[1].position))
      >= SeparatingVelocity(ret.off.bodies, VSub(args.w.bodies[2].position, args.w.bodies[1].position))

\* The square of the magnitude of the velocity of the second body of bodies_
\* with respect to the first, in whole units of the last decimal kept.
RelativeSpeedSq(bodies_) ==
  (bodies_[2].velocity.x - bodies_[1].velocity.x) * (bodies_[2].velocity.x - bodies_[1].velocity.x)
  + (bodies_[2].velocity.y - bodies_[1].velocity.y) * (bodies_[2].velocity.y - bodies_[1].velocity.y)

\* C16: for two jointed dynamic bodies given velocities that push them apart,
\* after the same number of steps the magnitude of the velocity of one body with
\* respect to the other is, in the world with warm_starting on, never larger
\* than in the world with it off.
C16_WarmStartNeverSlower ==
  last.op = "run_on_off" => RelativeSpeedSq(ret.on.bodies) <= RelativeSpeedSq(ret.off.bodies)

\* C17: bodies_two_mut(bodies, a, b) with handles in range: for a # b it
\* returns, and its views are bodies[a] and bodies[b] in that order (what is
\* read through them, and where the writes through them land), for a < b and
\* for a > b; for a = b it panics and hands out no view.
C17_TwoMutCallerOrder ==
  (last.op = "bodies_two_mut" /\ args.a < Len(args.bodies) /\ args.b < Len(args.bodies)) =>
    IF args.a = args.b
    THEN panicked /\ ret = NoValue
    ELSE /\ ~panicked
         /\ ret.views = <<args.bodies[args.a + 1], args.bodies[args.b + 1]>>
         /\ ret.bodies = [args.bodies EXCEPT ![args.a + 1].velocity = FirstWrite,
                                             ![args.b + 1].velocity = SecondWrite]

\* C17's case: the call has returned for handles given in descending order,
\* the larger one being the last body of a slice of three.
C17_Witness ==
  /\ last.op = "bodies_two_mut" /\ ~panicked
  /\ args.a > args.b /\ args.a = Len(args.bodies) - 1 /\ Len(args.bodies) = 3
  /\ ret.views[1] = args.bodies[args.a + 1]

\* C18: create_joint(def) panics when def.body1 or def.body2 is not the index
\* of a body, and then the world's joints are what they were; with two handles
\* of bodies it does not panic, the joints are the old ones with one joint
\* appended, made of def, and the handle returned is that joint's index.
C18_CreateJointChecksHandles ==
  [][last'.op = "create_joint" =>
       IF args.body1 < Len(bodies) /\ args.body2 < Len(bodies)
       THEN /\ ~panicked'
            /\ Len(joints') = Len(joints) + 1
            /\ SubSeq(joints', 1, Len(joints)) = joints
            /\ ret' = Len(joints') - 1
            /\ joints'[ret' + 1] = Joint_from_def(bodies, args)
       ELSE /\ panicked'
            /\ joints' = joints
            /\ ret' = NoValue]_vars

\* C18's case: create_joint has panicked on a definition whose first handle is
\* a body and whose second is not, in a world that held a joint already.
C18_Witness ==
  /\ last.op = "create_joint" /\ panicked
  /\ args.body1 < Len(bodies) /\ args.body2 >= Len(bodies)
  /\ Len(joints) = 1

\* C19: Body::from_def(def) panics, and produces no body, when def.width.x <= 0
\* or def.width.y <= 0, whether def.mass is None or Some, and when def.mass is
\* Some(m) with m <= 0.
C19_InvalidDefRejected ==
  (/\ last.op = "from_def"
   /\ \/ args.width.x <= 0
      \/ args.width.y <= 0
      \/ args.mass # None /\ args.mass[1] <= 0)
    => panicked /\ ret = NoValue

\* The matrix K that Joint::pre_step builds for the joint self on bodies_ (it
\* depends on the bodies' masses, inertias and rotations, which the earlier
\* stages of a step leave alone).
PreStepMatrix(self, bodies_) ==
  JointMatrix([self EXCEPT
                 !.r1 = MatVec(from_angle(body(bodies_, self.body1).rotation), self.local_anchor1),
                 !.r2 = MatVec(from_angle(body(bodies_, self.body2).rotation), self.local_anchor2)],
              body(bodies_, self.body1), body(bodies_, self.body2))

\* Both bodies of the joint self are static.
BetweenStatics(self, bodies_) ==
  /\ body(bodies_, self.body1).inv_mass = 0 /\ body(bodies_, self.body1).inv_i = 0
  /\ body(bodies_, self.body2).inv_mass = 0 /\ body(bodies_, self.body2).inv_i = 0

\* C20: a step whose Joint::pre_step finds a singular matrix K panics: after a
\* step that returned, no joint of the world it started from had a K with
\* determinant zero, and none had softness 0 between two static bodies.
C20_SingularJointFailsFast ==
  Stepped =>
    \A i \in DOMAIN pre.joints :
      /\ Det(PreStepMatrix(pre.joints[i], pre.bodies)) # 0
      /\ ~(pre.joints[i].softness = 0 /\ BetweenStatics(pre.joints[i], pre.bodies))

\* C20's case: a step has panicked in a world whose joint, of softness 0, is
\* between two different static bodies (no arbiter, so only the inversion can
\* have failed).
C20_Witness ==
  /\ last.op = "step" /\ panicked
  /\ Len(joints) = 1 /\ arbiters = EmptyMap
  /\ joints[1].body1 # joints[1].body2
  /\ joints[1].softness = 0 /\ BetweenStatics(joints[1], bodies)
  /\ Det(PreStepMatrix(joints[1], bodies)) = 0

\* The definitions that create_body can have built the body b from.
DefsOf(b) == {def \in BodyDefs : FromDefAsserts(def) /\ Body_from_def(def) = b}

\* C21: in every state every body has inv_mass >= 0 and inv_i >= 0, both as
\* they were when it was created (no step, and no other call, changes them);
\* both are 0 if it was created with mass = None and both are above 0 if it
\* was created with Some(mass), so one is 0 exactly when the other is.
C21_InverseMassAndInertia ==
  \A h \in Handles :
    /\ body(bodies, h).inv_mass >= 0 /\ body(bodies, h).inv_i >= 0
    /\ body(bodies, h).inv_mass = created[h + 1].inv_mass
    /\ body(bodies, h).inv_i = created[h + 1].inv_i
    /\ (body(bodies, h).inv_mass = 0) = (body(bodies, h).inv_i = 0)
    /\ DefsOf(created[h + 1]) # {}
    /\ \A def \in DefsOf(created[h + 1]) :
         IF def.mass = None
         THEN body(bodies, h).inv_mass = 0 /\ body(bodies, h).inv_i = 0
         ELSE body(bodies, h).inv_mass > 0 /\ body(bodies, h).inv_i > 0

\* C21's case: two steps have run, the second with dt # 0, on a world of a
\* static body and a dynamic body in contact, the dynamic one moved by them.
C21_Witness ==
  /\ Stepped /\ nsteps = 2 /\ last.dt # 0
  /\ \E h1, h2 \in Handles :
       /\ body(bodies, h1).inv_mass = 0 /\ body(bodies, h2).inv_mass > 0
       /\ body(bodies, h2).position # created[h2 + 1].position
       /\ InContact(h1) /\ InContact(h2)

\* The half-extent of the box b along the direction u (a unit vector): what
\* its two half-widths, laid along its own axes, reach along u.
ExtentAlong(b, u) ==
  Mul(b.width.x \div 2, Abs(dot(from_angle(b.rotation).col1, u)))
    + Mul(b.width.y \div 2, Abs(dot(from_angle(b.rotation).col2, u)))

\* The axes of the two boxes.
BoxAxes(a, b) ==
  {from_angle(a.rotation).col1, from_angle(a.rotation).col2,
   from_angle(b.rotation).col1, from_angle(b.rotation).col2}

\* The centres of a and b are further apart along u than the boxes reach.
ApartAlong(a, b, u) ==
  Abs(dot(VSub(b.position, a.position), u)) > ExtentAlong(a, u) + ExtentAlong(b, u)

\* C22: for two boxes whose centres are further apart along an axis of one of
\* them than the sum of their half-extents along it, collide returns 0, with
\* the boxes given in either order.
C22_ApartBoxesNoContact ==
  (last.op = "collide" /\ \E u \in BoxAxes(args.a, args.b) : ApartAlong(args.a, args.b, u))
    => ret.ab.num_contacts = 0 /\ ret.ba.num_contacts = 0

\* C22's case: collide has run on two turned boxes that are apart along an axis
\* of the second only.
C22_Witness ==
  /\ last.op = "collide"
  /\ args.a.rotation # 0 /\ args.b.rotation # 0
  /\ \E u \in BoxAxes(args.a, args.b) : ApartAlong(args.a, args.b, u)
  /\ ~ApartAlong(args.a, args.b, from_angle(args.a.rotation).col1)
  /\ ~ApartAlong(args.a, args.b, from_angle(args.a.rotation).col2)
  /\ ret.ab.num_contacts = 0

\* The boxes a and b overlap: along every axis of either, their centres are
\* closer than the sum of their half-extents.
Overlapping(a, b) ==
  \A u \in BoxAxes(a, b) :
    Abs(dot(VSub(b.position, a.position), u)) < ExtentAlong(a, u) + ExtentAlong(b, u)

\* The vector n has length 1, to the last decimal kept.
UnitLength(n) == Abs(dot(n, n) - Scale) <= 2

\* C23: for two overlapping boxes collide returns n contacts, 1 <= n <= 2, each
\* with a normal of length 1 and a separation <= 0, with the boxes given in
\* either order.
C23_OverlappingBoxesTouch ==
  (last.op = "collide" /\ Overlapping(args.a, args.b)) =>
    \A r \in {ret.ab, ret.ba} :
      /\ r.num_contacts \in 1..2
      /\ \A i \in 1..r.num_contacts :
           UnitLength(r.contacts[i].normal) /\ r.contacts[i].separation <= 0

\* C24: a clear leaves bodies, joints and arbiters empty and gravity,
\* iterations and config as they were; the next create_body puts its body at
\* index 0 and each later one at the next index, and so does create_joint with
\* its joint, while no joint or arbiter from before the clear is left to refer
\* to them.
C24_ClearEmptiesWorld ==
  [][/\ last'.op = "clear" =>
          /\ bodies' = <<>> /\ joints' = <<>> /\ arbiters' = EmptyMap
          /\ gravity' = gravity /\ iterations' = iterations /\ config' = config
          /\ ~panicked'
     /\ (last'.op = "create_body" /\ ~panicked') =>
          /\ Len(bodies') = Len(bodies) + 1
          /\ SubSeq(bodies', 1, Len(bodies)) = bodies
          /\ joints' = joints /\ arbiters' = arbiters
          /\ last.op = "clear" => (Len(bodies') = 1 /\ joints' = <<>> /\ arbiters' = EmptyMap)
     /\ (last'.op = "create_joint" /\ ~panicked') =>
          /\ Len(joints') = Len(joints) + 1
          /\ SubSeq(joints', 1, Len(joints)) = joints
          /\ bodies' = bodies /\ arbiters' = arbiters]_vars

\* C24's case: the played scene was cleared, a new scene of two bodies and a
\* joint was built from index 0 and a step of it has made an arbiter.
C24_Witness ==
  /\ Stepped /\ nsteps = 1
  /\ created # BuiltScene.bodies
  /\ Len(bodies) = 2 /\ Len(joints) = 1 /\ arbiters # EmptyMap

\* C25: in every step run with warm_starting off, whatever the flag was in the
\* steps before, every contact of every arbiter has pn = pt = pnb = 0 after the
\* step's broad phase, every joint has p = 0 after its pre_step, and the
\* pre-steps leave the bodies as the force integration left them (no impulse
\* from an earlier step is applied).
C25_WarmStartOffForgets ==
  (Stepped /\ ~config.warm_starting) =>
    /\ \A ki \in (DOMAIN broad_phase(PreWorld).arbiters) \X (1..MAX_POINTS) :
         /\ broad_phase(PreWorld).arbiters[ki[1]].contacts[ki[2]].pn = 0
         /\ broad_phase(PreWorld).arbiters[ki[1]].contacts[ki[2]].pt = 0
         /\ broad_phase(PreWorld).arbiters[ki[1]].contacts[ki[2]].pnb = 0
    /\ \A i \in DOMAIN SolverInput.joints : SolverInput.joints[i].p = Zero2
    /\ SolverInput.bodies = ForcesIntegrated(broad_phase(PreWorld), last.dt).bodies

\* C25's case: a step has run with warm_starting off on a world whose arbiter
\* and joint both carried an impulse from the step before.
C25_Witness ==
  /\ Stepped /\ ~config.warm_starting /\ nsteps = 2
  /\ \E k \in DOMAIN pre.arbiters : pre.arbiters[k].contacts[1].pn # 0
  /\ \E i \in DOMAIN pre.joints : pre.joints[i].p # Zero2

\* The order of the derived Ord of ArbiterKey: body1 first, then body2.
KeyBefore(k, x) == k[1] < x[1] \/ (k[1] = x[1] /\ k[2] < x[2])

RECURSIVE Ascending(_)
Ascending(S) ==
  IF S = {} THEN <<>>
  ELSE LET least == CHOOSE k \in S : \A x \in S \ {k} : KeyBefore(k, x)
       IN <<least>> \o Ascending(S \ {least})

RECURSIVE Repeated(_, _)
Repeated(n, calls) == IF n = 0 THEN <<>> ELSE calls \o Repeated(n - 1, calls)

\* The calls the phases are made of, in the order stated: one call on every
\* arbiter in ascending key order, then one on every joint.
OnEach(call, keys, nj) ==
  [i \in 1..Len(keys) |-> [call |-> call, on |-> "arbiter", at |-> keys[i]]]
    \o [i \in 1..nj |-> [call |-> call, on |-> "joint", at |-> i]]

PhasesInOrder(keys, nj, n) ==
  <<[call |-> "integrate_forces", on |-> "bodies", at |-> 0]>>
    \o OnEach("pre_step", keys, nj)
    \o Repeated(n, OnEach("apply_impulse", keys, nj))
    \o <<[call |-> "integrate_velocities", on |-> "bodies", at |-> 0]>>

\* One call made on the solver's view s of the world w.
Performed(c, s, w, dt, inv_dt) ==
  IF c.call = "integrate_forces"
  THEN [s EXCEPT !.bodies = [i \in DOMAIN s.bodies |->
                               IntegrateForce(s.bodies[i], dt, w.gravity)]]
  ELSE IF c.call = "integrate_velocities"
  THEN [s EXCEPT !.bodies = [i \in DOMAIN s.bodies |-> IntegrateVelocity(s.bodies[i], dt)]]
  ELSE IF c.call = "pre_step" /\ c.on = "arbiter"
  THEN ArbiterPreStepped(s, c.at, Arbiter_pre_step(s.arbiters[c.at], inv_dt, s.bodies,
                                                   w.config))
  ELSE IF c.call = "pre_step"
  THEN JointStepped(s, c.at, Joint_pre_step(s.joints[c.at], inv_dt, s.bodies, w.config))
  ELSE IF c.on = "arbiter"
  THEN ArbiterApplied(s, c.at, Arbiter_apply_impulse(s.arbiters[c.at], s.bodies, w.config))
  ELSE JointStepped(s, c.at, Joint_apply_impulse(s.joints[c.at], s.bodies))

RECURSIVE PerformedAll(_, _, _, _, _)
PerformedAll(calls, s, w, dt, inv_dt) ==
  IF calls = <<>> THEN s
  ELSE PerformedAll(Tail(calls), Performed(Head(calls), s, w, dt, inv_dt), w, dt, inv_dt)

\* The world the stated order of calls leaves, the broad phase having run first.
InStatedOrder(w, dt) ==
  PerformedAll(PhasesInOrder(Ascending(DOMAIN broad_phase(w).arbiters), Len(w.joints),
                             w.iterations),
               [bodies |-> broad_phase(w).bodies, joints |-> broad_phase(w).joints,
                arbiters |-> broad_phase(w).arbiters, ok |-> TRUE],
               w, dt, IF dt <= 0 THEN 0 ELSE Div(Scale, dt))

\* C26: a step leaves the world as these calls, made in this order, leave it:
\* the broad phase; the integration of forces; one pre_step on every arbiter in
\* ascending key order, then one on every joint; `iterations` sweeps, each one
\* apply_impulse on every arbiter in ascending key order, then one on every
\* joint (no sweep at all when iterations is 0); the integration of velocities.
C26_PhasesInOrder ==
  (last.op = "step" /\ ~panicked) =>
    /\ ret.bodies = InStatedOrder(args.w, args.dt).bodies
    /\ ret.joints = InStatedOrder(args.w, args.dt).joints
    /\ ret.arbiters = InStatedOrder(args.w, args.dt).arbiters

\* A step of two sweeps over three arbiters and a joint has returned.
C26_Witness ==
  /\ last.op = "step" /\ ~panicked
  /\ args.w.iterations = 2
  /\ Cardinality(DOMAIN ret.arbiters) = 3
  /\ Len(ret.joints) = 1
  /\ args.dt > 0
  /\ C26_PhasesInOrder

\* The velocity of body2's anchor point relative to body1's.
AnchorVelocity(joint, bodies_) ==
  VSub(VAdd(bodies_[joint.body2 + 1].velocity,
            cross_scalar_vec(bodies_[joint.body2 + 1].angular_velocity, joint.r2)),
       VAdd(bodies_[joint.body1 + 1].velocity,
            cross_scalar_vec(bodies_[joint.body1 + 1].angular_velocity, joint.r1)))

VDist(a, b) == Max(Abs(a.x - b.x), Abs(a.y - b.y))

\* The accumulated impulse grew by the impulse the two bodies received: body2's
\* velocity changed by inv_mass2 times it, body1's by minus inv_mass1 times it.
ImpulseAccumulated(r) ==
  LET impulse == VSub(r.joint.p, r.found.joint.p)
      b1 == r.joint.body1 + 1
      b2 == r.joint.body2 + 1
  IN /\ r.bodies[b2].velocity
          = VAdd(r.found.bodies[b2].velocity, VScale(r.found.bodies[b2].inv_mass, impulse))
     /\ r.bodies[b1].velocity
          = VSub(r.found.bodies[b1].velocity, VScale(r.found.bodies[b1].inv_mass, impulse))

\* The anchors as pre_step computes them.
AnchorGap(joint, bodies_) ==
  VSub(VAdd(bodies_[joint.body2 + 1].position, joint.r2),
       VAdd(bodies_[joint.body1 + 1].position, joint.r1))

\* What the relative anchor velocity misses the bias by.
AnchorResidual(joint, bodies_) == VDist(AnchorVelocity(joint, bodies_), joint.bias)

\* C27: after apply_impulse on a rigid joint with a dynamic body, the relative
\* velocity of the anchors is the bias velocity, to the resolution of the
\* arithmetic (2% of what the call had to correct plus 0.02); the bias is zero
\* when position correction is off or the anchors coincide; the impulse the
\* bodies received is added to the accumulated impulse; and when both bodies
\* are dynamic and were pulled apart along x, each moves away more slowly.
C27_AnchorVelocityIsBias ==
  (last.op = "apply_impulse" /\ ~panicked /\ ret.joint.softness = 0) =>
    /\ 50 * AnchorResidual(ret.joint, ret.bodies)
         <= AnchorResidual(ret.found.joint, ret.found.bodies) + Scale
    /\ (~args.config.position_correction \/ AnchorGap(ret.joint, args.bodies) = Zero2)
         => ret.joint.bias = Zero2
    /\ ImpulseAccumulated(ret)
    /\ (args.bodies[1].inv_mass > 0 /\ args.bodies[2].inv_mass > 0)
         => /\ ret.bodies[1].velocity.x > args.bodies[1].velocity.x
            /\ ret.bodies[2].velocity.x < args.bodies[2].velocity.x

\* The first apply_impulse on a joint between two dynamic bodies that are pulled
\* apart and turning, with anchors apart and position correction on, has
\* returned: the anchors moved apart at more than 5 a second and the bias is
\* not zero.
C27_Witness ==
  /\ last.op = "apply_impulse" /\ ~panicked
  /\ ret.applies = 1
  /\ args.bodies[1].inv_mass > 0 /\ args.bodies[2].inv_mass > 0
  /\ args.bodies[1].angular_velocity # 0
  /\ ret.joint.bias # Zero2
  /\ AnchorResidual(ret.found.joint, ret.found.bodies) > 5 * Scale
  /\ ret.joint.p # Zero2
  /\ C27_AnchorVelocityIsBias

\* C28: every joint and every arbiter of the world names two distinct handles
\* of existing bodies, the condition bodies_two_mut asserts, whatever calls of
\* create_body, create_joint, clear and step have succeeded; a step therefore
\* finds no joint and no arbiter it cannot split the bodies for.
C28_HandlesDistinctAndExist ==
  /\ \A i \in DOMAIN joints : TwoMutAsserts(bodies, joints[i].body1, joints[i].body2)
  /\ \A k \in DOMAIN arbiters :
       TwoMutAsserts(bodies, arbiters[k].body1, arbiters[k].body2)

\* mass * velocity summed over the bodies, the mass being 1 / inv_mass.
RECURSIVE Momentum(_)
Momentum(bodies_) ==
  IF bodies_ = <<>> THEN Zero2
  ELSE VAdd(VScale(Div(Scale, Head(bodies_).inv_mass), Head(bodies_).velocity),
            Momentum(Tail(bodies_)))

\* What the rounding of inv_mass * P can add up to in the momentum during one
\* step: nothing when every mass is 1; otherwise less than one unit of velocity,
\* so two of momentum for a mass of 2, on each of the two bodies, each time an
\* impulse is applied: for the normal and for the tangent of each contact and
\* for each joint, in each sweep (the warm start counted as one more).
MomentumRounding(w, arbiters_) ==
  IF \A i \in DOMAIN w.bodies : w.bodies[i].inv_mass = Scale THEN 0
  ELSE 2 * 2 * (1 + w.iterations)
         * (2 * MAX_POINTS * Cardinality(DOMAIN arbiters_) + Len(w.joints))

\* C29: in a world without gravity and forces whose bodies are all dynamic, a
\* step leaves the total linear momentum as it was, whatever the flags and the
\* number of iterations (to the rounding of the arithmetic when a mass is not 1).
C29_MomentumConserved ==
  (/\ last.op = "step" /\ ~panicked
   /\ args.w.gravity = Zero2
   /\ \A i \in DOMAIN args.w.bodies :
        /\ args.w.bodies[i].inv_mass > 0
        /\ args.w.bodies[i].force = Zero2)
    => VDist(Momentum(ret.bodies), Momentum(args.w.bodies))
         <= MomentumRounding(args.w, ret.arbiters)

\* A step of two sweeps over two or more arbiters and a joint, with accumulated
\* impulses to start from, has changed the velocity of every body.
C29_Witness ==
  /\ last.op = "step" /\ ~panicked
  /\ args.w.gravity = Zero2
  /\ args.w.iterations = 2
  /\ args.w.config.warm_starting /\ args.w.config.accumulate_impulses
  /\ Cardinality(DOMAIN args.w.arbiters) >= 2
  /\ Cardinality(DOMAIN ret.arbiters) >= 2
  /\ Len(ret.joints) = 1
  /\ \A i \in DOMAIN ret.bodies :
       /\ ret.bodies[i].inv_mass > 0
       /\ ret.bodies[i].velocity # args.w.bodies[i].velocity
  /\ \E i \in DOMAIN ret.bodies : ret.bodies[i].inv_mass # Scale
  /\ C29_MomentumConserved

\* normal . v - offset
PlaneDistance(v) == dot(args.normal, v) - args.offset

\* What the rounding of interp can move the intersection point off the plane
\* by: one unit for each whole unit of the segment's extent, and the rounding
\* of the products of the two dot products.
ClipRounding == VDist(args.v_in[1].v, args.v_in[2].v) \div Scale + 4

\* The output vertex is a point of the plane between the input vertices.
Intersection(cv) ==
  /\ Abs(PlaneDistance(cv.v)) <= ClipRounding
  /\ \A c \in {"x", "y"} :
       \/ args.v_in[1].v[c] <= cv.v[c] /\ cv.v[c] <= args.v_in[2].v[c]
       \/ args.v_in[2].v[c] <= cv.v[c] /\ cv.v[c] <= args.v_in[1].v[c]

\* The call returned 0, 1 or 2 without writing a third vertex, and what it
\* returned is an input vertex of the kept side or a point of the plane (to
\* the rounding of the arithmetic).
ClipWithinBounds ==
  /\ ~panicked
  /\ ret.num_out \in 0..2
  /\ \A i \in 1..ret.num_out :
       \/ ret.v_out[i] \in {args.v_in[1], args.v_in[2]} /\ PlaneDistance(ret.v_out[i].v) <= 0
       \/ Intersection(ret.v_out[i])

\* The call returned the vertex cv, then the intersection point.
InsideThenIntersection(cv) ==
  /\ ret.num_out = 2
  /\ ret.v_out[1] = cv
  /\ Intersection(ret.v_out[2])

Outside(cv) == PlaneDistance(cv.v) > 0
StrictlyInside(cv) == PlaneDistance(cv.v) < 0

\* C30 as stated: clip_segment_to_line returns 0, 1 or 2 and writes no third
\* vertex; every vertex it returns is on the kept side or on the plane; and
\* when exactly one input vertex is strictly outside, it returns the other
\* vertex and then the intersection point.
C30_ClipAsStated ==
  last.op = "clip_segment_to_line" =>
    /\ ClipWithinBounds
    /\ (Outside(args.v_in[1]) /\ ~Outside(args.v_in[2])) => InsideThenIntersection(args.v_in[2])
    /\ (Outside(args.v_in[2]) /\ ~Outside(args.v_in[1])) => InsideThenIntersection(args.v_in[1])

\* C30, amended: the same, but the intersection point is returned only when the
\* other vertex is strictly inside; when the other vertex is on the plane the
\* call returns 1, that vertex alone.
C30_ClipSegmentToLine ==
  last.op = "clip_segment_to_line" =>
    /\ ClipWithinBounds
    /\ \A i, j \in 1..2 :
         (i # j /\ Outside(args.v_in[i])) =>
           /\ StrictlyInside(args.v_in[j]) => InsideThenIntersection(args.v_in[j])
           /\ PlaneDistance(args.v_in[j].v) = 0
                => ret.num_out = 1 /\ ret.v_out[1] = args.v_in[j]

\* A segment that crosses a plane askew to the axes, from outside to strictly
\* inside, has been clipped to its inside vertex and the intersection point.
C30_Witness ==
  /\ last.op = "clip_segment_to_line"
  /\ args.normal.x # 0 /\ args.normal.y # 0
  /\ Outside(args.v_in[1]) /\ StrictlyInside(args.v_in[2])
  /\ ret.num_out = 2
  /\ ret.v_out[2].v \notin {args.v_in[1].v, args.v_in[2].v}
  /\ ret.v_out[2].fp.in_edge1 = args.clip_edge
  /\ C30_ClipSegmentToLine

====
